---- MODULE Spec2Model ----
(***************************************************************************)
(* A model of the BYD Seal RAG service: the index builder / cache manager  *)
(* (DocumentProcessor.create_vectorstores), the guardrail engine           *)
(* (GuardrailsChecker) and the retrieval orchestrator (RAGPipeline.ask and *)
(* its four graph nodes).  One builder and one asker run interleaved; the  *)
(* vector index, the cache files and the generation service are opaque     *)
(* collaborators whose outcomes are chosen nondeterministically.           *)
(*                                                                         *)
(* The guardrail functions and the two loaders are also called directly,   *)
(* on arguments drawn from small sets (SpecCalls).                         *)
(*                                                                         *)
(* Text is modelled as a sequence of one-character strings, so that        *)
(* lower-casing, trimming, substring tests and the number pattern are      *)
(* computed as the Python code computes them.                              *)
(***************************************************************************)
EXTENDS Integers, Sequences, FiniteSets, TLC

\* ------------------------------------------------------------------ text


(***************************************************************************)
(* A character is a one-character string; a character that cannot be       *)
(* written in a module is named by its code point, "U00C9" for U+00C9.     *)
(* The texts of the model are over printable ASCII, U+0080..U+017F, the    *)
(* Greek block U+0370..U+03FF, U+02BC, U+0301, U+0307, U+0308, U+2126,     *)
(* U+212A, U+212B, U+20B9 ("RUPEE"), every white-space character and every *)
(* decimal digit of Unicode 14.  On these characters the operators below   *)
(* are Python's.                                                           *)
(***************************************************************************)

Range(s) == {s[i] : i \in 1..Len(s)}
Min(a, b) == IF a < b THEN a ELSE b
Reverse(s) == [i \in 1..Len(s) |-> s[Len(s) + 1 - i]]

\* the characters c.lower() changes into one other character, and, at the
\* same position, that character
UpperCase ==
    <<"A","B","C","D","E","F","G","H","I","J","K","L","M","N","O","P","Q",
      "R","S","T","U","V","W","X","Y","Z","U00C0","U00C1","U00C2","U00C3",
      "U00C4","U00C5","U00C6","U00C7","U00C8","U00C9","U00CA","U00CB",
      "U00CC","U00CD","U00CE","U00CF","U00D0","U00D1","U00D2","U00D3",
      "U00D4","U00D5","U00D6","U00D8","U00D9","U00DA","U00DB","U00DC",
      "U00DD","U00DE","U0100","U0102","U0104","U0106","U0108","U010A",
      "U010C","U010E","U0110","U0112","U0114","U0116","U0118","U011A",
      "U011C","U011E","U0120","U0122","U0124","U0126","U0128","U012A",
      "U012C","U012E","U0132","U0134","U0136","U0139","U013B","U013D",
      "U013F","U0141","U0143","U0145","U0147","U014A","U014C","U014E",
      "U0150","U0152","U0154","U0156","U0158","U015A","U015C","U015E",
      "U0160","U0162","U0164","U0166","U0168","U016A","U016C","U016E",
      "U0170","U0172","U0174","U0176","U0178","U0179","U017B","U017D",
      "U0370","U0372","U0376","U037F","U0386","U0388","U0389","U038A",
      "U038C","U038E","U038F","U0391","U0392","U0393","U0394","U0395",
      "U0396","U0397","U0398","U0399","U039A","U039B","U039C","U039D",
      "U039E","U039F","U03A0","U03A1","U03A3","U03A4","U03A5","U03A6",
      "U03A7","U03A8","U03A9","U03AA","U03AB","U03CF","U03D8","U03DA",
      "U03DC","U03DE","U03E0","U03E2","U03E4","U03E6","U03E8","U03EA",
      "U03EC","U03EE","U03F4","U03F7","U03F9","U03FA","U03FD","U03FE",
      "U03FF","U2126","U212A","U212B">>

LowerCase ==
    <<"a","b","c","d","e","f","g","h","i","j","k","l","m","n","o","p","q",
      "r","s","t","u","v","w","x","y","z","U00E0","U00E1","U00E2","U00E3",
      "U00E4","U00E5","U00E6","U00E7","U00E8","U00E9","U00EA","U00EB",
      "U00EC","U00ED","U00EE","U00EF","U00F0","U00F1","U00F2","U00F3",
      "U00F4","U00F5","U00F6","U00F8","U00F9","U00FA","U00FB","U00FC",
      "U00FD","U00FE","U0101","U0103","U0105","U0107","U0109","U010B",
      "U010D","U010F","U0111","U0113","U0115","U0117","U0119","U011B",
      "U011D","U011F","U0121","U0123","U0125","U0127","U0129","U012B",
      "U012D","U012F","U0133","U0135","U0137","U013A","U013C","U013E",
      "U0140","U0142","U0144","U0146","U0148","U014B","U014D","U014F",
      "U0151","U0153","U0155","U0157","U0159","U015B","U015D","U015F",
      "U0161","U0163","U0165","U0167","U0169","U016B","U016D","U016F",
      "U0171","U0173","U0175","U0177","U00FF","U017A","U017C","U017E",
      "U0371","U0373","U0377","U03F3","U03AC","U03AD","U03AE","U03AF",
      "U03CC","U03CD","U03CE","U03B1","U03B2","U03B3","U03B4","U03B5",
      "U03B6","U03B7","U03B8","U03B9","U03BA","U03BB","U03BC","U03BD",
      "U03BE","U03BF","U03C0","U03C1","U03C3","U03C4","U03C5","U03C6",
      "U03C7","U03C8","U03C9","U03CA","U03CB","U03D7","U03D9","U03DB",
      "U03DD","U03DF","U03E1","U03E3","U03E5","U03E7","U03E9","U03EB",
      "U03ED","U03EF","U03B8","U03F8","U03F2","U03FB","U037B","U037C",
      "U037D","U03C9","k","U00E5">>

UpperSet == Range(UpperCase)

\* the characters the Final_Sigma condition of str.lower() skips
CaseIgnorable ==
    {"'",".",":","^","U0060","U00A8","U00AD","U00AF","U00B4","U00B7",
      "U00B8","U02BC","U0301","U0307","U0308","U0374","U0375","U037A",
      "U0384","U0385","U0387"}

\* the cased characters among those the condition does not skip
Cased ==
    {"A","B","C","D","E","F","G","H","I","J","K","L","M","N","O","P","Q",
      "R","S","T","U","V","W","X","Y","Z","a","b","c","d","e","f","g","h",
      "i","j","k","l","m","n","o","p","q","r","s","t","u","v","w","x","y",
      "z","U00AA","U00B5","U00BA","U00C0","U00C1","U00C2","U00C3","U00C4",
      "U00C5","U00C6","U00C7","U00C8","U00C9","U00CA","U00CB","U00CC",
      "U00CD","U00CE","U00CF","U00D0","U00D1","U00D2","U00D3","U00D4",
      "U00D5","U00D6","U00D8","U00D9","U00DA","U00DB","U00DC","U00DD",
      "U00DE","U00DF","U00E0","U00E1","U00E2","U00E3","U00E4","U00E5",
      "U00E6","U00E7","U00E8","U00E9","U00EA","U00EB","U00EC","U00ED",
      "U00EE","U00EF","U00F0","U00F1","U00F2","U00F3","U00F4","U00F5",
      "U00F6","U00F8","U00F9","U00FA","U00FB","U00FC","U00FD","U00FE",
      "U00FF","U0100","U0101","U0102","U0103","U0104","U0105","U0106",
      "U0107","U0108","U0109","U010A","U010B","U010C","U010D","U010E",
      "U010F","U0110","U0111","U0112","U0113","U0114","U0115","U0116",
      "U0117","U0118","U0119","U011A","U011B","U011C","U011D","U011E",
      "U011F","U0120","U0121","U0122","U0123","U0124","U0125","U0126",
      "U0127","U0128","U0129","U012A","U012B","U012C","U012D","U012E",
      "U012F","U0130","U0131","U0132","U0133","U0134","U0135","U0136",
      "U0137","U0138","U0139","U013A","U013B","U013C","U013D","U013E",
      "U013F","U0140","U0141","U0142","U0143","U0144","U0145","U0146",
      "U0147","U0148","U0149","U014A","U014B","U014C","U014D","U014E",
      "U014F","U0150","U0151","U0152","U0153","U0154","U0155","U0156",
      "U0157","U0158","U0159","U015A","U015B","U015C","U015D","U015E",
      "U015F","U0160","U0161","U0162","U0163","U0164","U0165","U0166",
      "U0167","U0168","U0169","U016A","U016B","U016C","U016D","U016E",
      "U016F","U0170","U0171","U0172","U0173","U0174","U0175","U0176",
      "U0177","U0178","U0179","U017A","U017B","U017C","U017D","U017E",
      "U017F","U0370","U0371","U0372","U0373","U0376","U0377","U037B",
      "U037C","U037D","U037F","U0386","U0388","U0389","U038A","U038C",
      "U038E","U038F","U0390","U0391","U0392","U0393","U0394","U0395",
      "U0396","U0397","U0398","U0399","U039A","U039B","U039C","U039D",
      "U039E","U039F","U03A0","U03A1","U03A3","U03A4","U03A5","U03A6",
      "U03A7","U03A8","U03A9","U03AA","U03AB","U03AC","U03AD","U03AE",
      "U03AF","U03B0","U03B1","U03B2","U03B3","U03B4","U03B5","U03B6",
      "U03B7","U03B8","U03B9","U03BA","U03BB","U03BC","U03BD","U03BE",
      "U03BF","U03C0","U03C1","U03C2","U03C3","U03C4","U03C5","U03C6",
      "U03C7","U03C8","U03C9","U03CA","U03CB","U03CC","U03CD","U03CE",
      "U03CF","U03D0","U03D1","U03D2","U03D3","U03D4","U03D5","U03D6",
      "U03D7","U03D8","U03D9","U03DA","U03DB","U03DC","U03DD","U03DE",
      "U03DF","U03E0","U03E1","U03E2","U03E3","U03E4","U03E5","U03E6",
      "U03E7","U03E8","U03E9","U03EA","U03EB","U03EC","U03ED","U03EE",
      "U03EF","U03F0","U03F1","U03F2","U03F3","U03F4","U03F5","U03F7",
      "U03F8","U03F9","U03FA","U03FB","U03FC","U03FD","U03FE","U03FF",
      "U2126","U212A","U212B"}

\* the digits str(n) writes
Digits == <<"0","1","2","3","4","5","6","7","8","9">>

\* the characters of category Nd, which \d matches and float() reads: one
\* sequence per script, the digit of value v at position v + 1
DecimalDigits ==
    <<<<"0","1","2","3","4","5","6","7","8","9">>,
      <<"U0660","U0661","U0662","U0663","U0664","U0665","U0666","U0667","U0668","U0669">>,
      <<"U06F0","U06F1","U06F2","U06F3","U06F4","U06F5","U06F6","U06F7","U06F8","U06F9">>,
      <<"U07C0","U07C1","U07C2","U07C3","U07C4","U07C5","U07C6","U07C7","U07C8","U07C9">>,
      <<"U0966","U0967","U0968","U0969","U096A","U096B","U096C","U096D","U096E","U096F">>,
      <<"U09E6","U09E7","U09E8","U09E9","U09EA","U09EB","U09EC","U09ED","U09EE","U09EF">>,
      <<"U0A66","U0A67","U0A68","U0A69","U0A6A","U0A6B","U0A6C","U0A6D","U0A6E","U0A6F">>,
      <<"U0AE6","U0AE7","U0AE8","U0AE9","U0AEA","U0AEB","U0AEC","U0AED","U0AEE","U0AEF">>,
      <<"U0B66","U0B67","U0B68","U0B69","U0B6A","U0B6B","U0B6C","U0B6D","U0B6E","U0B6F">>,
      <<"U0BE6","U0BE7","U0BE8","U0BE9","U0BEA","U0BEB","U0BEC","U0BED","U0BEE","U0BEF">>,
      <<"U0C66","U0C67","U0C68","U0C69","U0C6A","U0C6B","U0C6C","U0C6D","U0C6E","U0C6F">>,
      <<"U0CE6","U0CE7","U0CE8","U0CE9","U0CEA","U0CEB","U0CEC","U0CED","U0CEE","U0CEF">>,
      <<"U0D66","U0D67","U0D68","U0D69","U0D6A","U0D6B","U0D6C","U0D6D","U0D6E","U0D6F">>,
      <<"U0DE6","U0DE7","U0DE8","U0DE9","U0DEA","U0DEB","U0DEC","U0DED","U0DEE","U0DEF">>,
      <<"U0E50","U0E51","U0E52","U0E53","U0E54","U0E55","U0E56","U0E57","U0E58","U0E59">>,
      <<"U0ED0","U0ED1","U0ED2","U0ED3","U0ED4","U0ED5","U0ED6","U0ED7","U0ED8","U0ED9">>,
      <<"U0F20","U0F21","U0F22","U0F23","U0F24","U0F25","U0F26","U0F27","U0F28","U0F29">>,
      <<"U1040","U1041","U1042","U1043","U1044","U1045","U1046","U1047","U1048","U1049">>,
      <<"U1090","U1091","U1092","U1093","U1094","U1095","U1096","U1097","U1098","U1099">>,
      <<"U17E0","U17E1","U17E2","U17E3","U17E4","U17E5","U17E6","U17E7","U17E8","U17E9">>,
      <<"U1810","U1811","U1812","U1813","U1814","U1815","U1816","U1817","U1818","U1819">>,
      <<"U1946","U1947","U1948","U1949","U194A","U194B","U194C","U194D","U194E","U194F">>,
      <<"U19D0","U19D1","U19D2","U19D3","U19D4","U19D5","U19D6","U19D7","U19D8","U19D9">>,
      <<"U1A80","U1A81","U1A82","U1A83","U1A84","U1A85","U1A86","U1A87","U1A88","U1A89">>,
      <<"U1A90","U1A91","U1A92","U1A93","U1A94","U1A95","U1A96","U1A97","U1A98","U1A99">>,
      <<"U1B50","U1B51","U1B52","U1B53","U1B54","U1B55","U1B56","U1B57","U1B58","U1B59">>,
      <<"U1BB0","U1BB1","U1BB2","U1BB3","U1BB4","U1BB5","U1BB6","U1BB7","U1BB8","U1BB9">>,
      <<"U1C40","U1C41","U1C42","U1C43","U1C44","U1C45","U1C46","U1C47","U1C48","U1C49">>,
      <<"U1C50","U1C51","U1C52","U1C53","U1C54","U1C55","U1C56","U1C57","U1C58","U1C59">>,
      <<"UA620","UA621","UA622","UA623","UA624","UA625","UA626","UA627","UA628","UA629">>,
      <<"UA8D0","UA8D1","UA8D2","UA8D3","UA8D4","UA8D5","UA8D6","UA8D7","UA8D8","UA8D9">>,
      <<"UA900","UA901","UA902","UA903","UA904","UA905","UA906","UA907","UA908","UA909">>,
      <<"UA9D0","UA9D1","UA9D2","UA9D3","UA9D4","UA9D5","UA9D6","UA9D7","UA9D8","UA9D9">>,
      <<"UA9F0","UA9F1","UA9F2","UA9F3","UA9F4","UA9F5","UA9F6","UA9F7","UA9F8","UA9F9">>,
      <<"UAA50","UAA51","UAA52","UAA53","UAA54","UAA55","UAA56","UAA57","UAA58","UAA59">>,
      <<"UABF0","UABF1","UABF2","UABF3","UABF4","UABF5","UABF6","UABF7","UABF8","UABF9">>,
      <<"UFF10","UFF11","UFF12","UFF13","UFF14","UFF15","UFF16","UFF17","UFF18","UFF19">>,
      <<"U104A0","U104A1","U104A2","U104A3","U104A4","U104A5","U104A6","U104A7","U104A8","U104A9">>,
      <<"U10D30","U10D31","U10D32","U10D33","U10D34","U10D35","U10D36","U10D37","U10D38","U10D39">>,
      <<"U11066","U11067","U11068","U11069","U1106A","U1106B","U1106C","U1106D","U1106E","U1106F">>,
      <<"U110F0","U110F1","U110F2","U110F3","U110F4","U110F5","U110F6","U110F7","U110F8","U110F9">>,
      <<"U11136","U11137","U11138","U11139","U1113A","U1113B","U1113C","U1113D","U1113E","U1113F">>,
      <<"U111D0","U111D1","U111D2","U111D3","U111D4","U111D5","U111D6","U111D7","U111D8","U111D9">>,
      <<"U112F0","U112F1","U112F2","U112F3","U112F4","U112F5","U112F6","U112F7","U112F8","U112F9">>,
      <<"U11450","U11451","U11452","U11453","U11454","U11455","U11456","U11457","U11458","U11459">>,
      <<"U114D0","U114D1","U114D2","U114D3","U114D4","U114D5","U114D6","U114D7","U114D8","U114D9">>,
      <<"U11650","U11651","U11652","U11653","U11654","U11655","U11656","U11657","U11658","U11659">>,
      <<"U116C0","U116C1","U116C2","U116C3","U116C4","U116C5","U116C6","U116C7","U116C8","U116C9">>,
      <<"U11730","U11731","U11732","U11733","U11734","U11735","U11736","U11737","U11738","U11739">>,
      <<"U118E0","U118E1","U118E2","U118E3","U118E4","U118E5","U118E6","U118E7","U118E8","U118E9">>,
      <<"U11950","U11951","U11952","U11953","U11954","U11955","U11956","U11957","U11958","U11959">>,
      <<"U11C50","U11C51","U11C52","U11C53","U11C54","U11C55","U11C56","U11C57","U11C58","U11C59">>,
      <<"U11D50","U11D51","U11D52","U11D53","U11D54","U11D55","U11D56","U11D57","U11D58","U11D59">>,
      <<"U11DA0","U11DA1","U11DA2","U11DA3","U11DA4","U11DA5","U11DA6","U11DA7","U11DA8","U11DA9">>,
      <<"U16A60","U16A61","U16A62","U16A63","U16A64","U16A65","U16A66","U16A67","U16A68","U16A69">>,
      <<"U16AC0","U16AC1","U16AC2","U16AC3","U16AC4","U16AC5","U16AC6","U16AC7","U16AC8","U16AC9">>,
      <<"U16B50","U16B51","U16B52","U16B53","U16B54","U16B55","U16B56","U16B57","U16B58","U16B59">>,
      <<"U1D7CE","U1D7CF","U1D7D0","U1D7D1","U1D7D2","U1D7D3","U1D7D4","U1D7D5","U1D7D6","U1D7D7">>,
      <<"U1D7D8","U1D7D9","U1D7DA","U1D7DB","U1D7DC","U1D7DD","U1D7DE","U1D7DF","U1D7E0","U1D7E1">>,
      <<"U1D7E2","U1D7E3","U1D7E4","U1D7E5","U1D7E6","U1D7E7","U1D7E8","U1D7E9","U1D7EA","U1D7EB">>,
      <<"U1D7EC","U1D7ED","U1D7EE","U1D7EF","U1D7F0","U1D7F1","U1D7F2","U1D7F3","U1D7F4","U1D7F5">>,
      <<"U1D7F6","U1D7F7","U1D7F8","U1D7F9","U1D7FA","U1D7FB","U1D7FC","U1D7FD","U1D7FE","U1D7FF">>,
      <<"U1E140","U1E141","U1E142","U1E143","U1E144","U1E145","U1E146","U1E147","U1E148","U1E149">>,
      <<"U1E2F0","U1E2F1","U1E2F2","U1E2F3","U1E2F4","U1E2F5","U1E2F6","U1E2F7","U1E2F8","U1E2F9">>,
      <<"U1E950","U1E951","U1E952","U1E953","U1E954","U1E955","U1E956","U1E957","U1E958","U1E959">>,
      <<"U1FBF0","U1FBF1","U1FBF2","U1FBF3","U1FBF4","U1FBF5","U1FBF6","U1FBF7","U1FBF8","U1FBF9">>>>

\* the characters for which str.isspace() is true
Whitespace ==
    {"\t","\n","U000B","U000C","\r","U001C","U001D","U001E","U001F"," ",
      "U0085","U00A0","U1680","U2000","U2001","U2002","U2003","U2004",
      "U2005","U2006","U2007","U2008","U2009","U200A","U2028","U2029",
      "U202F","U205F","U3000"}

\* c.lower(), a text: U+0130 becomes two characters
LowerChar(c) ==
    IF c = "U0130" THEN <<"i", "U0307">>
    ELSE IF c \in UpperSet
    THEN <<LowerCase[CHOOSE i \in 1..Len(UpperCase) : UpperCase[i] = c]>>
    ELSE <<c>>

\* the Final_Sigma condition at position i of s: going back over the
\* characters skipped there is a cased character, and going forward over
\* them there is none
FinalSigma(s, i) ==
    LET before == {j \in 1..(i - 1) : s[j] \notin CaseIgnorable}
        after  == {j \in (i + 1)..Len(s) : s[j] \notin CaseIgnorable}
    IN  /\ before # {}
        /\ s[CHOOSE j \in before : \A k \in before : k <= j] \in Cased
        /\ \/ after = {}
           \/ s[CHOOSE j \in after : \A k \in after : j <= k] \notin Cased

\* what str.lower() writes for the character at position i of s
LowerAt(s, i) ==
    IF s[i] = "U03A3" /\ FinalSigma(s, i) THEN <<"U03C2">> ELSE LowerChar(s[i])

\* the texts of a sequence, one after the other
RECURSIVE Flatten(_)
Flatten(seqs) ==
    IF seqs = <<>> THEN <<>>
    ELSE IF Len(seqs) = 1 THEN seqs[1]
    ELSE LET half == Len(seqs) \div 2
         IN  Flatten(SubSeq(seqs, 1, half)) \o Flatten(SubSeq(seqs, half + 1, Len(seqs)))

\* str.lower(): character by character, unless a character becomes two
Lower(s) ==
    IF \A i \in 1..Len(s) : Len(LowerAt(s, i)) = 1
    THEN [i \in 1..Len(s) |-> LowerAt(s, i)[1]]
    ELSE Flatten([i \in 1..Len(s) |-> LowerAt(s, i)])

\* sub in s
Contains(sub, s) ==
    \E i \in 0..(Len(s) - Len(sub)) : SubSeq(s, i + 1, i + Len(sub)) = sub

\* str.strip()
RECURSIVE LStrip(_)
LStrip(s) ==
    IF s # <<>> /\ Head(s) \in Whitespace THEN LStrip(Tail(s)) ELSE s
RECURSIVE RStrip(_)
RStrip(s) ==
    IF s # <<>> /\ s[Len(s)] \in Whitespace
    THEN RStrip(SubSeq(s, 1, Len(s) - 1)) ELSE s
Strip(s) == RStrip(LStrip(s))

\* sep.join(parts)
RECURSIVE Join(_, _)
Join(sep, parts) ==
    IF parts = <<>> THEN <<>>
    ELSE IF Len(parts) = 1 THEN parts[1]
    ELSE parts[1] \o sep \o Join(sep, Tail(parts))

\* n copies of the character c
Repeat(c, n) == [i \in 1..n |-> c]

\* str(n) for a natural number n
RECURSIVE Decimal(_)
Decimal(n) ==
    IF n < 10 THEN <<Digits[n + 1]>>
    ELSE Decimal(n \div 10) \o <<Digits[(n % 10) + 1]>>

\* the characters \d matches
DigitSet == UNION {Range(DecimalDigits[k]) : k \in 1..Len(DecimalDigits)}

IsDigit(c) == c \in DigitSet

\* the value float() and int() give the digit c
DigitVal(c) ==
    (CHOOSE v \in 1..10 : \E k \in 1..Len(DecimalDigits) : DecimalDigits[k][v] = c) - 1

\* ---------------------------------------------------------------- config

\* Config.__post_init__: the default sensitive topics
sensitive_topics ==
    <<
      <<"p","r","i","c","e">>,
      <<"p","r","i","c","i","n","g">>,
      <<"c","o","s","t">>,
      <<"w","a","r","r","a","n","t","y">>,
      <<"g","u","a","r","a","n","t","e","e">>,
      <<"a","v","a","i","l","a","b","i","l","i","t","y">>,
      <<"s","t","o","c","k">>,
      <<"d","e","l","i","v","e","r","y">>,
      <<"s","h","i","p","p","i","n","g">>,
      <<"t","e","c","h","n","i","c","a","l"," ","s","p","e","c","i","f","i",
        "c","a","t","i","o","n","s">>,
      <<"p","e","r","f","o","r","m","a","n","c","e"," ","n","u","m","b","e",
        "r","s">>
    >>

\* GuardrailsChecker.__init__; "RUPEE" stands for the one character U+20B9
fabrication_indicators ==
    <<
      <<"a","p","p","r","o","x","i","m","a","t","e","l","y">>,
      <<"a","r","o","u","n","d">>,
      <<"r","o","u","g","h","l","y">>,
      <<"a","b","o","u","t"," ","$">>,
      <<"RUPEE">>,
      <<"s","t","a","r","t","i","n","g"," ","f","r","o","m">>,
      <<"p","r","i","c","e","d"," ","a","t">>,
      <<"c","o","s","t","s">>,
      <<"e","s","t","i","m","a","t","e","d">>,
      <<"l","i","k","e","l","y">>,
      <<"p","r","o","b","a","b","l","y">>,
      <<"m","i","g","h","t"," ","b","e">>,
      <<"c","o","u","l","d"," ","b","e">>
    >>

MsgSensitive ==
    <<"I"," ","c","a","n","n","o","t"," ","p","r","o","v","i","d","e"," ",
      "i","n","f","o","r","m","a","t","i","o","n"," ","a","b","o","u","t",
      " ","p","r","i","c","i","n","g",","," ","w","a","r","r","a","n","t",
      "y",","," ","o","r"," ","t","e","c","h","n","i","c","a","l"," ","s",
      "p","e","c","i","f","i","c","a","t","i","o","n","s"," ","a","s"," ",
      "t","h","i","s"," ","i","n","f","o","r","m","a","t","i","o","n"," ",
      "i","s"," ","n","o","t"," ","a","v","a","i","l","a","b","l","e"," ",
      "i","n"," ","m","y"," ","r","e","l","i","a","b","l","e"," ","s","o",
      "u","r","c","e","s",".">>

MsgInsufficientInfo ==
    <<"I"," ","d","o","n","'","t"," ","h","a","v","e"," ","e","n","o","u",
      "g","h"," ","i","n","f","o","r","m","a","t","i","o","n"," ","t","o",
      " ","a","n","s","w","e","r"," ","t","h","i","s"," ","q","u","e","s",
      "t","i","o","n"," ","s","a","f","e","l","y",".">>

MsgValidationFailed ==
    <<"I"," ","c","a","n","n","o","t"," ","p","r","o","v","i","d","e"," ",
      "a"," ","r","e","l","i","a","b","l","e"," ","a","n","s","w","e","r",
      " ","b","a","s","e","d"," ","o","n"," ","t","h","e"," ","a","v","a",
      "i","l","a","b","l","e"," ","s","o","u","r","c","e","s","."," ","P",
      "l","e","a","s","e"," ","t","r","y"," ","r","e","p","h","r","a","s",
      "i","n","g"," ","y","o","u","r"," ","q","u","e","s","t","i","o","n",
      " ","o","r"," ","a","s","k"," ","a","b","o","u","t"," ","t","o","p",
      "i","c","s"," ","c","o","v","e","r","e","d"," ","i","n"," ","t","h",
      "e"," ","r","e","l","i","a","b","l","e"," ","d","o","c","u","m","e",
      "n","t","a","t","i","o","n",".">>

MsgOther ==
    <<"I"," ","c","a","n","n","o","t"," ","p","r","o","v","i","d","e"," ",
      "i","n","f","o","r","m","a","t","i","o","n"," ","o","n"," ","t","h",
      "i","s"," ","t","o","p","i","c",".">>

MsgError ==
    <<"I"," ","e","n","c","o","u","n","t","e","r","e","d"," ","a","n"," ",
      "e","r","r","o","r"," ","w","h","i","l","e"," ","p","r","o","c","e",
      "s","s","i","n","g"," ","y","o","u","r"," ","q","u","e","s","t","i",
      "o","n",".">>

MsgNotReady ==
    <<"V","e","c","t","o","r","s","t","o","r","e","s"," ","n","o","t"," ",
      "i","n","i","t","i","a","l","i","z","e","d","."," ","P","l","e","a",
      "s","e"," ","c","a","l","l"," ","/","e","m","b","e","d"," ","e","n",
      "d","p","o","i","n","t"," ","f","i","r","s","t",".">>

QPrice ==
    <<"W","h","a","t"," ","i","s"," ","t","h","e"," ","P","r","i","c","e",
      "?">>

QRange ==
    <<"H","o","w"," ","f","a","s","t"," ","i","s"," ","i","t","?">>

AnsPlain ==
    <<"I","t"," ","i","s"," ","f","a","s","t",".">>

AnsHedged ==
    <<"I","t"," ","i","s"," ","l","i","k","e","l","y"," ","1","5","0","0",
      " ","k","m",".">>

\* the texts of the passages handed to validate_answer directly
SampleTexts ==
    <<
      <<"T","h","e"," ","r","a","n","g","e"," ","i","s"," ","1","5","0",
          "0"," ","k","m",".">>,
      <<"I","t"," ","w","a","s"," ","l","a","u","n","c","h","e","d"," ",
          "i","n"," ","2","0","2","1",".">>,
      <<"I","t"," ","i","s"," ","f","a","s","t",".">>,
      <<"S","a","l","e","s"," ","o","f"," ","1","5","0","0","0"," ","a",
          "r","e"," ","l","i","k","e","l","y",".">>
    >>

\* the numbers an answer to validate holds: inside, at the ends of and
\* outside the range 100..2030, with a comma, with a fraction, a lone comma
NumberTokens ==
    {<<"1","5","0","0">>,
     <<"2","0","2","1">>,
     <<"9","9">>,
     <<"1","0","0">>,
     <<"2","0","3","0">>,
     <<"2","0","3","1">>,
     <<"2","0","3","0",".","5">>,
     <<"1",",","5","0","0">>,
     <<"1","5","0","0",".","5">>,
     <<",">>,
     <<"1","5","0","0","0">>,
     <<"9","9",".","9","9","9","9","9","9","9","9","9","9","9","9","9","9",
          "9","9","9">>,
     <<"2","0","3","0",".","0","0","0","0","0","0","0","0","0","0","0","0",
          "0","0","0","1">>,
     <<"U0661","U0665","U0660","U0660">>}

\* further questions for is_sensitive_question: topics in upper and mixed
\* case, within a longer word, broken by a space, and none; topics written
\* with the Kelvin sign for K, with the dotted capital I, with the long s
QuestionTexts ==
    {<<"W","A","R","R","A","N","T","Y">>,
     <<"I","s"," ","i","t"," ","i","n"," ","S","t","o","c","k","?">>,
     <<"T","e","c","h","n","i","c","a","l"," ","S","p","e","c","i","f",
          "i","c","a","t","i","o","n","s">>,
     <<"t","e","c","h","n","i","c","a","l"," "," ","s","p","e","c","i",
          "f","i","c","a","t","i","o","n","s">>,
     <<"p","r","i","c","e","y">>,
     <<"p","r","i","c"," ","e">>,
     <<"H","e","l","l","o">>,
     <<"C","o","S","t">>,
     <<"S","T","O","C","U212A">>,
     <<"P","R","U0130","C","E">>,
     <<"c","o","U017F","t">>}

\* Model Configuration / Document Processing / Retrieval Configuration
top_k_retrieval == 3

batch_size == 20

chunk_size == 800

\* Model Configuration: seconds
retry_delay == 2

\* the number of passages the authoritative file splits into, at most
MaxFacts == 2
\* the number of batches a rebuild of the supplemental index runs through,
\* at most, when no question is asked meanwhile
MaxBatches == 3
\* the number of times a function called directly is called, at most
MaxCalls == 2
\* the number of chunks the authoritative text of a direct call splits into,
\* at most (one longer text apart)
MaxChunks == 3
\* the number of records in the supplemental file of a direct call, at most
MaxRecords == 2

\* ------------------------------------------------------------- documents

(***************************************************************************)
(* A Document is an object reference; page_content and metadata are its   *)
(* immutable fields.  Doc(source, n) is chunk n of the authoritative file, *)
(* or sample text n; Chunk(n, c) is sub-chunk c of the record at position  *)
(* n of the supplemental file (c = 1 for a record that is not split).      *)
(***************************************************************************)
Doc(source, n) == [source |-> source, n |-> n]
Chunk(n, c) == [source |-> "external", n |-> n, c |-> c]

\* Authoritative passages alternate between a text that is 50 characters
\* long once trimmed and one that is 51 characters long; supplemental
\* passages are 30 characters long; a sample passage holds a sample text.
page_content(doc) ==
    IF doc.source = "facts"
    THEN IF doc.n % 2 = 1
         THEN <<" ", " ">> \o Repeat("x", 50) \o <<"\n">>
         ELSE Repeat("x", 51)
    ELSE IF doc.source = "sample" THEN SampleTexts[doc.n]
    ELSE Repeat("y", 30)

\* f"F{n}", f"E{n}", f"c{n}"
Numbered(letter, n) == <<letter>> \o Decimal(n)

\* load_facts lines 47-52; load_external lines 79-88 and
\* _create_document_chunks lines 116-117: doc_id from the position of the
\* record in the file, chunk_id from the position of the sub-chunk in the
\* record
metadata(doc) ==
    IF doc.source = "facts"
    THEN [source |-> "facts", doc_id |-> Numbered("F", doc.n),
          chunk_id |-> Numbered("c", doc.n), file_path |-> "data/byd_seal_facts.md"]
    ELSE [source |-> "external", doc_id |-> Numbered("E", doc.n),
          chunk_id |-> Numbered("c", doc.c), file_path |-> "data/byd_seal_external.json"]

\* api_models.Citation
Citation(source, doc_id, chunk_id) ==
    [source |-> source, doc_id |-> doc_id, chunk_id |-> chunk_id]

\* Optional[FAISS]: no index, or an index holding docs in insertion order
None == [exists |-> FALSE, docs |-> <<>>]
FAISS(docs) == [exists |-> TRUE, docs |-> docs]

\* the passages of an index by decreasing similarity to the question: the
\* embedding is opaque, so the model fixes one order per question, the order
\* of insertion for a question of even length and its reverse for the others
ranked(vectorstore, question) ==
    IF Len(question) % 2 = 0 THEN vectorstore.docs ELSE Reverse(vectorstore.docs)

\* FAISS.similarity_search(question, k): the results it may return, the
\* nearest passages first and at most k of them
similarity_search(vectorstore, question, k) ==
    {SubSeq(ranked(vectorstore, question), 1, m) :
        m \in 0..Min(k, Len(vectorstore.docs))}

\* ------------------------------------------------------------ guardrails

\* a classification that compares the question as it was typed
is_sensitive_question_cased(question) ==
    \E t \in 1..Len(sensitive_topics) : Contains(sensitive_topics[t], question)

\* GuardrailsChecker.is_sensitive_question
is_sensitive_question(question) ==
    LET question_lower == Lower(question)
    IN  \E t \in 1..Len(sensitive_topics) :
            Contains(sensitive_topics[t], question_lower)

\* the length of the longest prefix of s made of characters of set
RunLen(s, set) ==
    CHOOSE n \in 0..Len(s) :
        /\ \A i \in 1..n : s[i] \in set
        /\ n = Len(s) \/ s[n + 1] \notin set

\* re.findall(r'[\d,]+(?:\.\d+)?', s)
RECURSIVE FindNumbers(_)
FindNumbers(s) ==
    IF s = <<>> THEN <<>>
    ELSE IF s[1] \in DigitSet \cup {","}
    THEN LET run  == RunLen(s, DigitSet \cup {","})
             rest == SubSeq(s, run + 1, Len(s))
             frac == IF rest # <<>> /\ rest[1] = "."
                     THEN RunLen(Tail(rest), DigitSet) ELSE 0
             end  == IF frac > 0 THEN run + 1 + frac ELSE run
         IN  <<SubSeq(s, 1, end)>> \o FindNumbers(SubSeq(s, end + 1, Len(s)))
    ELSE FindNumbers(Tail(s))

\* the value of a sequence of digits
RECURSIVE DigitsValue(_)
DigitsValue(ds) ==
    IF ds = <<>> THEN 0
    ELSE 10 * DigitsValue(SubSeq(ds, 1, Len(ds) - 1)) + DigitVal(ds[Len(ds)])

\* the digits after the point of 1 - 2^-47: 99 and these digits is half way
\* between 100 and the double below it, 100 - 2^-46
HalfBelow100 ==
    <<9,9,9,9,9,9,9,9,9,9,9,9,9,9,2,8,9,4,5,7,2,6,4,2,3,9,8,9,9,8,1,4,1,2,8,
      8,7,5,7,3,2,4,2,1,8,7,5>>

\* the digits after the point of 2^-43: 2030 and these digits is half way
\* between 2030 and the double above it, 2030 + 2^-42
HalfAbove2030 ==
    <<0,0,0,0,0,0,0,0,0,0,0,0,1,1,3,6,8,6,8,3,7,7,2,1,6,1,6,0,2,9,7,3,9,3,7,
      9,8,8,2,8,1,2,5>>

\* the digit at position i after the point
FracDigit(fraction, i) == IF i <= Len(fraction) THEN fraction[i] ELSE 0

\* 0.f < 0.g, for two sequences of digits after the point
FracLess(f, g) ==
    \E k \in 1..(Len(f) + Len(g)) :
        /\ FracDigit(f, k) < FracDigit(g, k)
        /\ \A j \in 1..(k - 1) : FracDigit(f, j) = FracDigit(g, j)

\* the digits without the zeros they begin with
RECURSIVE Significant(_)
Significant(ds) ==
    IF ds # <<>> /\ DigitVal(Head(ds)) = 0 THEN Significant(Tail(ds)) ELSE ds

\* num_val = float(number.replace(',', '')), as far as the code looks at
\* it: [ok |-> FALSE] is ValueError; otherwise lt_100 is num_val < 100 and
\* gt_2030 is num_val > 2030.  float() gives the double nearest to the
\* decimal, the even one of two that are equally near (100 and 2030 are
\* even), so the decimal is compared with the two half-way points.
ParseFloat(number) ==
    LET text  == SelectSeq(number, LAMBDA c : c # ",")
        whole == RunLen(text, DigitSet)
        int   == Significant(SubSeq(text, 1, whole))
        fraction == [i \in 1..(Len(text) - whole - 1) |-> DigitVal(text[whole + 1 + i])]
    IN  IF text = <<>> THEN [ok |-> FALSE, lt_100 |-> FALSE, gt_2030 |-> FALSE]
        ELSE [ok |-> TRUE,
              lt_100 |-> \/ Len(int) < 2
                         \/ /\ Len(int) = 2
                            /\ \/ DigitsValue(int) < 99
                               \/ FracLess(fraction, HalfBelow100),
              gt_2030 |-> \/ Len(int) > 4
                          \/ /\ Len(int) = 4
                             /\ \/ DigitsValue(int) > 2030
                                \/ /\ DigitsValue(int) = 2030
                                   /\ FracLess(HalfAbove2030, fraction)]

\* a number check that lets every number through
contains_specific_numbers_never(answer, source_content) == FALSE

\* GuardrailsChecker._contains_specific_numbers
contains_specific_numbers(answer, source_content) ==
    LET answer_numbers == FindNumbers(answer)
    IN  \E i \in 1..Len(answer_numbers) :
            LET number == answer_numbers[i]
                num_val == ParseFloat(number)
            IN  /\ ~Contains(number, source_content)
                /\ num_val.ok
                /\ ~(num_val.lt_100 \/ num_val.gt_2030)

\* GuardrailsChecker.validate_answer
validate_answer(answer, sources) ==
    IF sources = <<>> THEN FALSE
    ELSE LET source_content ==
                 Lower(Join(<<" ">>, [i \in 1..Len(sources) |-> page_content(sources[i])]))
             answer_lower == Lower(answer)
             fabrication_found ==
                 {i \in 1..Len(fabrication_indicators) :
                    /\ Contains(fabrication_indicators[i], answer_lower)
                    /\ ~Contains(fabrication_indicators[i], source_content)}
         IN  /\ fabrication_found = {}
             /\ ~contains_specific_numbers(answer, source_content)

\* GuardrailsChecker.should_refuse_sensitive
should_refuse_sensitive(is_sensitive, has_facts) == is_sensitive /\ ~has_facts

\* GuardrailsChecker.get_refusal_message
get_refusal_message(question_type) ==
    IF question_type = "sensitive" THEN MsgSensitive
    ELSE IF question_type = "insufficient_info" THEN MsgInsufficientInfo
    ELSE IF question_type = "validation_failed" THEN MsgValidationFailed
    ELSE MsgOther

\* ------------------------------------------------------------------ state

VARIABLES
    facts_file,            \* the number of passages load_facts yields (0: none)
    external_file,         \* [exists, kept]: the supplemental file, as the
                           \* sub-chunks load_external keeps of it: <<n, c>> is
                           \* sub-chunk c of the record at position n
    facts_cache,           \* cache/facts_vectorstore on disk
    external_cache,        \* cache/external_vectorstore on disk
    facts_vectorstore,     \* DocumentProcessor.facts_vectorstore
    external_vectorstore,  \* DocumentProcessor.external_vectorstore
    vectorstores_ready,    \* RAGPipeline.vectorstores_ready
    bpc,                   \* where the call of initialize_vectorstores stands
    vectorstore,           \* _create_vectorstore_batched: the index under construction
    batch_i,               \* _create_vectorstore_batched: the loop variable i
    failed,                \* the numbers of the batches that failed in this call
    rebuilt,               \* the index kinds this call built from their source
    restored,              \* the index kinds this call loaded from their cache
    snap,                  \* the indexes as the last completed call left them
    log,                   \* the index calls and sleeps of this call, in order
    apc,                   \* where the call of ask stands
    state,                 \* the RAGState of the question in flight
    response,              \* the AnswerResponse ask returned
    trace,                 \* the nodes run and collaborators called by this ask
    obs,                   \* what this ask read of the shared fields
    call,                  \* a direct call of one function: arguments and results
    host                   \* who calls the pipeline: the handlers of main.py, or
                           \* callers of RAGPipeline on threads of their own

disk    == <<facts_file, external_file, facts_cache, external_cache>>
files   == <<facts_file, external_file>>
caches  == <<facts_cache, external_cache>>
indexes == <<facts_vectorstore, external_vectorstore>>
builder == <<bpc, vectorstore, batch_i, failed, rebuilt, restored, snap, log>>
asker   == <<apc, state, response, trace, obs>>
vars    == <<disk, indexes, vectorstores_ready, builder, asker, call, host>>

\* ---------------------------------------------------------------- ingestion

\* DocumentProcessor.load_facts: one Document per chunk, numbered from 1
load_facts == [i \in 1..facts_file |-> Doc("facts", i)]

\* DocumentProcessor.load_external: one Document per sub-chunk kept, in the
\* order of the file; load_external_file below gives the records skipped
\* and the sub-chunks dropped
load_external ==
    [i \in 1..Len(external_file.kept) |->
        Chunk(external_file.kept[i][1], external_file.kept[i][2])]

(***************************************************************************)
(* The two loaders in full, for a file given as a value.  status tells      *)
(* whether the file can be opened and parsed; the text splitter is an      *)
(* opaque collaborator, so the file carries, as texts, the chunks          *)
(* text_splitter.split_text yields for a text.                             *)
(***************************************************************************)

\* langchain.schema.Document
Document(content, meta) == [page_content |-> content, metadata |-> meta]

\* an except clause that raises again
load_failed_reraise == [raised |-> TRUE, documents |-> <<>>]

\* load_facts lines 59-61, load_external lines 96-98: `return []`
load_failed == [raised |-> FALSE, documents |-> <<>>]

\* load_facts line 57, load_external line 94: `return documents`
loaded(documents) == [raised |-> FALSE, documents |-> documents]

\* a numbering of the chunks from 0
facts_doc_id_zero(i) == Numbered("F", i)

\* load_facts line 49, i being the index enumerate gives, from 0
facts_doc_id(i) == Numbered("F", i + 1)

\* DocumentProcessor.load_facts
load_facts_file(file) ==
    IF file.status # "ok" THEN load_failed
    ELSE loaded([n \in 1..Len(file.texts) |->
                   LET i == n - 1
                   IN  Document(file.texts[n],
                                [source |-> "facts", doc_id |-> facts_doc_id(i),
                                 chunk_id |-> Numbered("c", i + 1),
                                 file_path |-> "data/byd_seal_facts.md"])])

(***************************************************************************)
(* What json.load returns, as Python values: None, a number (true and      *)
(* false are the numbers 1 and 0), a string, a list and a dict, whose     *)
(* entries are its <<key, value>> pairs in the order of the file.         *)
(***************************************************************************)
null == [type |-> "null"]
Number(n) == [type |-> "number", n |-> n]
Str(s) == [type |-> "str", s |-> s]
List(elems) == [type |-> "list", elems |-> elems]
Dict(entries) == [type |-> "dict", entries |-> entries]

\* the keys load_external reads
transcriptText_key ==
    <<"t", "r", "a", "n", "s", "c", "r", "i", "p", "t", "T", "e", "x", "t">>
transcript_key == <<"t", "r", "a", "n", "s", "c", "r", "i", "p", "t">>
content_key == <<"c", "o", "n", "t", "e", "n", "t">>
video_id_key == <<"v", "i", "d", "e", "o", "_", "i", "d">>

\* bool(value)
Truthy(value) ==
    CASE value.type = "null" -> FALSE
      [] value.type = "number" -> value.n # 0
      [] value.type = "str" -> value.s # <<>>
      [] value.type = "list" -> value.elems # <<>>
      [] value.type = "dict" -> value.entries # <<>>

\* `key in container` and iter(container) raise TypeError on None and on a
\* number
Iterable(container) == container.type \in {"str", "list", "dict"}

\* `key in container`, key being a string: a key of the dict, a substring
\* of the string, an element of the list
In(key, container) ==
    CASE container.type = "dict" ->
             \E e \in 1..Len(container.entries) : container.entries[e][1] = key
      [] container.type = "str" -> Contains(key, container.s)
      [] container.type = "list" ->
             \E e \in 1..Len(container.elems) : container.elems[e] = Str(key)

\* container[key], key being a string: a string and a list raise TypeError
Subscriptable(container) == container.type = "dict"

\* dict.get(key, default)
Get(container, key, default) ==
    IF In(key, container)
    THEN container.entries[CHOOSE e \in 1..Len(container.entries) :
                               container.entries[e][1] = key][2]
    ELSE default

\* a call that raised, and a call that returned value
Raised == [raised |-> TRUE, value |-> null]
Returned(value) == [raised |-> FALSE, value |-> value]

\* _extract_transcript_content lines 104-106
extract_transcript(item) ==
    IF In(transcript_key, item)
    THEN IF Subscriptable(item) THEN Returned(Get(item, transcript_key, null))
         ELSE Raised
    ELSE Returned(Str(<<>>))

\* _extract_transcript_content: the value returned, whatever its type, or
\* the TypeError of a test or subscript the value at hand does not support
extract_transcript_content(item) ==
    IF ~Iterable(item) THEN Raised
    ELSE IF ~In(transcriptText_key, item) THEN extract_transcript(item)
    ELSE IF ~Subscriptable(item) THEN Raised
    ELSE LET transcript_text == Get(item, transcriptText_key, null)
         IN  IF ~Iterable(transcript_text) THEN Raised
             ELSE IF ~In(content_key, transcript_text) THEN extract_transcript(item)
             ELSE IF ~Subscriptable(transcript_text) THEN Raised
             ELSE Returned(Get(transcript_text, content_key, null))

\* a filter that skips the empty records only
too_short_empty_only(transcript_content) == transcript_content = <<>>

\* load_external line 75
too_short(transcript_content) ==
    transcript_content = <<>> \/ Len(Strip(transcript_content)) < 20

\* a numbering that gives every sub-chunk the chunk_id of the record
sub_chunk_id_first(j) == Numbered("c", 1)

\* _create_document_chunks line 117, j being the index enumerate gives over
\* all the sub-chunks, from 0
sub_chunk_id(j) == Numbered("c", j + 1)

\* _create_document_chunks; texts is what split_text yields for content
create_document_chunks(content, base_metadata, texts) ==
    IF Len(content) > chunk_size
    THEN Flatten([n \in 1..Len(texts) |->
                    LET j == n - 1
                    IN  IF Len(Strip(texts[n])) > 20
                        THEN <<Document(texts[n],
                                        [base_metadata EXCEPT
                                             !.chunk_id = sub_chunk_id(j)])>>
                        ELSE <<>>])
    ELSE <<Document(content, base_metadata)>>

\* `for i, item in enumerate(data)`: the elements of a list, the keys of a
\* dict, the characters of a string
Iterate(data) ==
    CASE data.type = "list" -> data.elems
      [] data.type = "dict" -> [e \in 1..Len(data.entries) |-> Str(data.entries[e][1])]
      [] data.type = "str" -> [c \in 1..Len(data.s) |-> Str(<<data.s[c]>>)]

\* the body of the loop raised, and the documents it appended
BodyRaised == [raised |-> TRUE, documents |-> <<>>]
Appended(documents) == [raised |-> FALSE, documents |-> documents]

\* load_external lines 72-91, the body of the loop for the item of index i:
\* a value that is false in Python is skipped before it is trimmed, and
\* strip() raises AttributeError on a value that is no string; video_id
\* stands for the four fields the metadata copies from the record; texts is
\* what split_text yields for the transcript
load_external_item(i, item, texts) ==
    LET extracted == extract_transcript_content(item)
        transcript_content == extracted.value
    IN  IF extracted.raised THEN BodyRaised
        ELSE IF ~Truthy(transcript_content) THEN Appended(<<>>)
        ELSE IF transcript_content.type # "str" THEN BodyRaised
        ELSE IF too_short(transcript_content.s) THEN Appended(<<>>)
        ELSE IF item.type # "dict" THEN BodyRaised
        ELSE Appended(create_document_chunks(
                 transcript_content.s,
                 [source |-> "external", doc_id |-> Numbered("E", i + 1),
                  chunk_id |-> Numbered("c", 1),
                  file_path |-> "data/byd_seal_external.json",
                  video_id |-> Get(item, video_id_key, Str(<<>>))],
                 texts))

\* DocumentProcessor.load_external: an exception anywhere in the body ends
\* in the except clause of lines 96-98, the documents of the earlier
\* records dropped
load_external_file(file) ==
    IF file.status # "ok" \/ ~Iterable(file.data) THEN load_failed
    ELSE LET data == Iterate(file.data)
             body == [n \in 1..Len(data) |->
                         load_external_item(n - 1, data[n], file.texts[n])]
         IN  IF \E n \in 1..Len(data) : body[n].raised THEN load_failed
             ELSE loaded(Flatten([n \in 1..Len(data) |-> body[n].documents]))

\* ------------------------------------------------------------ the builder

\* create_vectorstores lines 141-149, once _load_from_cache has returned
AfterLoadFromCache(facts_vs, external_vs) ==
    IF ~facts_vs.exists THEN "from_scratch"
    ELSE IF ~external_vs.exists /\ external_file.exists /\ load_external # <<>>
         THEN "batched_first"
    ELSE "save_to_cache"

\* FAISS.load_local: the index the cache holds, or None when loading fails
load_local(cache, current, ok) ==
    IF cache.exists THEN (IF ok THEN cache ELSE None) ELSE current

\* no call of initialize_vectorstores is under way: none was made or the
\* last one returned ("idle"), or the last one raised ("raised")
NoBuild == bpc \in {"idle", "raised"}

\* main.py: the handlers are coroutines that never await, so the event loop
\* runs each to its end before it starts another
Serial == host = "main"

\* FAISS.load_local returned the index of the cache
loaded_from(cache, ok) == cache.exists /\ ok

\* initialize_vectorstores is called; _load_from_cache, the facts cache
LoadFactsCache ==
    /\ NoBuild
    /\ Serial => apc = "idle"
    /\ \E ok \in BOOLEAN :
           /\ facts_vectorstore' = load_local(facts_cache, facts_vectorstore, ok)
           /\ restored' = IF loaded_from(facts_cache, ok) THEN {"facts"} ELSE {}
    /\ bpc' = "load_external_cache"
    /\ log' = <<>>
    /\ UNCHANGED <<host, call, disk, external_vectorstore, vectorstores_ready, vectorstore,
                   batch_i, failed, rebuilt, snap, asker>>

\* _load_from_cache, the external cache; then the branch of create_vectorstores
LoadExternalCache ==
    /\ bpc = "load_external_cache"
    /\ \E ok \in BOOLEAN :
           /\ external_vectorstore' = load_local(external_cache, external_vectorstore, ok)
           /\ restored' = restored \cup
                  (IF loaded_from(external_cache, ok) THEN {"external"} ELSE {})
    /\ bpc' = AfterLoadFromCache(facts_vectorstore, external_vectorstore')
    /\ UNCHANGED <<host, call, disk, facts_vectorstore, vectorstores_ready, vectorstore,
                   batch_i, failed, rebuilt, snap, log, asker>>

\* one call of the index library, FAISS.from_documents or add_texts, with
\* the number of passages it was given and whether it returned
index_call(op, n, ok) == [op |-> op, n |-> n, ok |-> ok]

\* time.sleep(seconds)
sleep(seconds) == [op |-> "sleep", n |-> seconds, ok |-> TRUE]

\* a build that goes on without authoritative passages
no_facts_never(facts_docs) == FALSE

\* _create_vectorstores_from_scratch line 201: `if not facts_docs`
no_facts(facts_docs) == facts_docs = <<>>

\* _create_vectorstores_from_scratch lines 197-213
CreateFromScratch ==
    /\ bpc = "from_scratch"
    /\ LET facts_docs == load_facts
           external_docs == load_external
       IN  \/ /\ no_facts(facts_docs)         \* raise ValueError
              /\ bpc' = "raised"
              /\ UNCHANGED <<facts_vectorstore, rebuilt, log>>
           \/ /\ ~no_facts(facts_docs)        \* FAISS.from_documents raises
              /\ bpc' = "raised"
              /\ log' = Append(log, index_call("from_documents", Len(facts_docs), FALSE))
              /\ UNCHANGED <<facts_vectorstore, rebuilt>>
           \/ /\ ~no_facts(facts_docs)
              /\ facts_vectorstore' = FAISS(facts_docs)
              /\ log' = Append(log, index_call("from_documents", Len(facts_docs), TRUE))
              /\ rebuilt' = rebuilt \cup {"facts"}
              /\ bpc' = IF external_docs # <<>> THEN "batched_first"
                                                ELSE "save_to_cache"
    /\ UNCHANGED <<host, call, disk, external_vectorstore, vectorstores_ready, vectorstore,
                   batch_i, failed, restored, snap, asker>>

\* _create_vectorstore_batched line 229
first_batch_size(documents) == Min(batch_size, Len(documents))

\* _create_vectorstore_batched line 239: remaining_docs[i:i + batch_size]
batch_at(remaining_docs, i, size) ==
    SubSeq(remaining_docs, i + 1, Min(i + size, Len(remaining_docs)))

\* _create_vectorstore_batched line 240: the number the batch is logged under
batch_number(i, size) == (i \div size) + 2

\* _create_vectorstore_batched lines 227-236 and 262-264
BatchedFirst ==
    /\ bpc = "batched_first"
    /\ LET documents == load_external
           size == first_batch_size(documents)
       IN  \/ /\ vectorstore' = FAISS(SubSeq(documents, 1, size))
              /\ batch_i' = 0
              /\ bpc' = "batched_loop"
              /\ log' = Append(log, index_call("from_documents", size, TRUE))
              /\ UNCHANGED <<external_vectorstore, failed>>
           \/ /\ external_vectorstore' = None     \* returns None
              /\ failed' = failed \cup {1}
              /\ bpc' = "save_to_cache"
              /\ log' = Append(log, index_call("from_documents", size, FALSE))
              /\ UNCHANGED <<vectorstore, batch_i>>
    /\ rebuilt' = rebuilt \cup {"external"}
    /\ UNCHANGED <<host, call, disk, facts_vectorstore, vectorstores_ready, restored, snap,
                   asker>>

\* a loop that ends at the first failed batch
after_batch_error_stop(i, size, total) == total

\* _create_vectorstore_batched lines 253-257: `continue`, the loop goes on
\* with the batch after the failed one
after_batch_error(i, size, total) == i + size

\* _create_vectorstore_batched lines 248-251: the sleep after the insert of
\* remaining_docs[i:i + size], when a batch is left after it
pause_after_insert(i, size, total) ==
    IF i + size < total THEN <<sleep(retry_delay)>> ELSE <<>>

\* a handler that sleeps no longer than after an insert that went well
pause_after_error_short == <<sleep(retry_delay)>>

\* _create_vectorstore_batched lines 253-256: the sleep of the handler
pause_after_error == <<sleep(retry_delay * 2)>>

\* _create_vectorstore_batched lines 238-257: one turn of the loop
BatchedAdd ==
    /\ bpc = "batched_loop"
    /\ LET documents == load_external
           size == first_batch_size(documents)
           remaining_docs == SubSeq(documents, size + 1, Len(documents))
           batch == batch_at(remaining_docs, batch_i, size)
       IN  /\ batch_i < Len(remaining_docs)
           /\ \/ /\ vectorstore' = FAISS(vectorstore.docs \o batch)
                 /\ batch_i' = batch_i + size
                 /\ log' = log \o <<index_call("add_texts", Len(batch), TRUE)>>
                               \o pause_after_insert(batch_i, size, Len(remaining_docs))
                 /\ UNCHANGED failed
              \/ /\ failed' = failed \cup {batch_number(batch_i, size)}
                 /\ batch_i' = after_batch_error(batch_i, size, Len(remaining_docs))
                 /\ log' = log \o <<index_call("add_texts", Len(batch), FALSE)>>
                               \o pause_after_error
                 /\ UNCHANGED vectorstore
    /\ UNCHANGED <<host, call, disk, indexes, vectorstores_ready, bpc, rebuilt, restored,
                   snap, asker>>

\* _create_vectorstore_batched line 260, and the assignment of its result
BatchedReturn ==
    /\ bpc = "batched_loop"
    /\ LET documents == load_external
           size == first_batch_size(documents)
       IN  batch_i >= Len(documents) - size
    /\ external_vectorstore' = vectorstore
    /\ bpc' = "save_to_cache"
    /\ UNCHANGED <<host, call, disk, facts_vectorstore, vectorstores_ready, vectorstore,
                   batch_i, failed, rebuilt, restored, snap, log, asker>>

\* FAISS.save_local under the one try of _save_to_cache: the file after it
save_local(index, cache, attempted, ok) ==
    IF index.exists /\ attempted /\ ok THEN index ELSE cache

\* _save_to_cache lines 189-190: whether the save of the Supplemental index
\* is reached, the two saves standing in one try
external_save_reached(facts_vs, facts_ok) == ~facts_vs.exists \/ facts_ok

\* the call of save_local on the index of kind, when the index exists and
\* the call is reached
save_call(kind, index, attempted, ok) ==
    IF index.exists /\ attempted
    THEN <<index_call(kind \o ".save_local", Len(index.docs), ok)>>
    ELSE <<>>

\* _save_to_cache
SaveToCache ==
    /\ bpc = "save_to_cache"
    /\ \E facts_ok, external_ok \in BOOLEAN :
           LET reached == external_save_reached(facts_vectorstore, facts_ok)
           IN  /\ facts_cache' =
                      save_local(facts_vectorstore, facts_cache, TRUE, facts_ok)
               /\ external_cache' =
                      save_local(external_vectorstore, external_cache, reached,
                                 external_ok)
               /\ log' = log \o save_call("facts", facts_vectorstore, TRUE, facts_ok)
                             \o save_call("external", external_vectorstore, reached,
                                          external_ok)
    /\ bpc' = "set_ready"
    /\ UNCHANGED <<host, call, files, indexes, vectorstores_ready, vectorstore, batch_i,
                   failed, rebuilt, restored, snap, asker>>

\* initialize_vectorstores line 35
SetReady ==
    /\ bpc = "set_ready"
    /\ vectorstores_ready' = TRUE
    /\ snap' = [facts |-> facts_vectorstore, external |-> external_vectorstore]
    /\ bpc' = "idle"
    /\ vectorstore' = None
    /\ batch_i' = 0
    /\ failed' = {}
    /\ rebuilt' = {}
    /\ restored' = {}
    /\ log' = <<>>
    /\ UNCHANGED <<host, call, disk, indexes, asker>>

\* -------------------------------------------------------------- the asker

Questions == {QPrice, QRange}

\* what llm.invoke answers: a text, or an exception
LLMOutcomes ==
    {[raised |-> FALSE, content |-> AnsPlain],
     [raised |-> FALSE, content |-> AnsHedged],
     [raised |-> TRUE, content |-> <<>>]}

\* api_models.AnswerResponse
AnswerResponse(answer, status, citations) ==
    [answer |-> answer, status |-> status, citations |-> citations]

NoResponse == AnswerResponse(<<>>, "none", <<>>)

\* ask lines 205-214
initial_state(question) ==
    [question |-> question, retrieved_facts |-> <<>>, retrieved_external |-> <<>>,
     answer |-> <<>>, citations |-> <<>>, status |-> "processing",
     needs_external |-> FALSE, is_sensitive |-> FALSE]

NoState == initial_state(<<>>)
NoObs == [ready |-> FALSE, half_built |-> FALSE, called |-> FALSE]

\* a coverage test that asks every passage to be substantive
sufficient_facts_all(docs) ==
    docs # <<>> /\ \A i \in 1..Len(docs) : Len(Strip(page_content(docs[i]))) > 50

\* _retrieve_facts line 72
sufficient_facts(docs) ==
    docs # <<>> /\ \E i \in 1..Len(docs) : Len(Strip(page_content(docs[i]))) > 50

\* _retrieve_facts, given what the similarity search returned
retrieve_facts(st, index, docs) ==
    IF index.exists
    THEN [st EXCEPT !.retrieved_facts = docs,
                    !.needs_external = ~sufficient_facts(docs)]
    ELSE [st EXCEPT !.retrieved_facts = <<>>, !.needs_external = TRUE]

\* _check_sensitivity
check_sensitivity(st) ==
    [st EXCEPT !.is_sensitive = is_sensitive_question(st.question)]

\* a gate that leaves the sensitivity of the question out
external_wanted_ungated(st) == st.needs_external

\* a gate that closes only for the sensitive questions that will be refused
external_wanted_unless_refused(st) ==
    st.needs_external /\ ~should_refuse_sensitive(st.is_sensitive, st.retrieved_facts # <<>>)

\* _retrieve_external line 91
external_wanted(st) == st.needs_external /\ ~st.is_sensitive

\* _retrieve_external, given what the similarity search returned
retrieve_external(st, index, docs) ==
    IF external_wanted(st) /\ index.exists
    THEN [st EXCEPT !.retrieved_external = docs]
    ELSE [st EXCEPT !.retrieved_external = <<>>]

\* _extract_citations
extract_citations(sources) ==
    [i \in 1..Len(sources) |->
        Citation(metadata(sources[i]).source, metadata(sources[i]).doc_id,
                 metadata(sources[i]).chunk_id)]

\* a combination that puts the supplemental passages first
all_sources_external_first(st) == st.retrieved_external \o st.retrieved_facts

\* _generate_answer line 111
all_sources(st) == st.retrieved_facts \o st.retrieved_external

\* a decision that looks at the sensitivity of the question first
refusal_sensitive_first(st) ==
    IF should_refuse_sensitive(st.is_sensitive, st.retrieved_facts # <<>>)
    THEN "sensitive"
    ELSE IF all_sources(st) = <<>> THEN "insufficient_info"
    ELSE "none"

\* _generate_answer lines 113-126: the refusals decided before generation
refusal(st) ==
    IF all_sources(st) = <<>> THEN "insufficient_info"
    ELSE IF should_refuse_sensitive(st.is_sensitive, st.retrieved_facts # <<>>)
         THEN "sensitive"
    ELSE "none"

\* an exception handler that leaves the status as it was
generation_failed_no_status(st) ==
    [st EXCEPT !.answer = MsgError, !.citations = <<>>]

\* _generate_answer lines 143-147
generation_failed(st) ==
    [st EXCEPT !.answer = MsgError, !.status = "error", !.citations = <<>>]

\* _generate_answer, given what llm.invoke did
generate_answer(st, llm) ==
    IF refusal(st) = "insufficient_info"
    THEN [st EXCEPT !.answer = get_refusal_message("insufficient_info"),
                    !.status = "insufficient_info", !.citations = <<>>]
    ELSE IF refusal(st) = "sensitive"
    THEN [st EXCEPT !.answer = get_refusal_message("sensitive"),
                    !.status = "refused_sensitive", !.citations = <<>>]
    ELSE IF llm.raised THEN generation_failed(st)
    ELSE IF validate_answer(llm.content, all_sources(st))
    THEN [st EXCEPT !.answer = llm.content, !.status = "answered",
                    !.citations = extract_citations(all_sources(st))]
    ELSE [st EXCEPT !.answer = get_refusal_message("validation_failed"),
                    !.status = "validation_failed", !.citations = <<>>]

\* a read of an index field while a call of initialize_vectorstores is under
\* way that finds another value than the last completed call left
HalfBuilt(index, completed) == ~NoBuild /\ index # completed

\* a readiness test on the authoritative index instead of the flag
not_ready_by_index == ~facts_vectorstore.exists

\* ask line 198
not_ready == ~vectorstores_ready

\* RAGPipeline.ask lines 196-214, up to the first node
ask(question) ==
    /\ IF not_ready
       THEN /\ response' = AnswerResponse(MsgNotReady, "not_ready", <<>>)
            /\ apc' = "returned"
            /\ UNCHANGED state
       ELSE /\ state' = initial_state(question)
            /\ apc' = "retrieve_facts"
            /\ UNCHANGED response
    /\ obs' = [NoObs EXCEPT !.ready = vectorstores_ready, !.called = TRUE]
    /\ trace' = <<>>

\* a caller on a thread of its own calls RAGPipeline.ask
Ask ==
    /\ apc = "idle"
    /\ ~Serial
    /\ \E question \in Questions : ask(question)
    /\ UNCHANGED <<host, call, disk, indexes, vectorstores_ready, builder>>

\* main.py ask_question lines 38-49: POST /ask raises HTTPException(400)
\* without calling pipeline.ask when the flag is false (pipeline is set:
\* the startup event has constructed it)
AskQuestion ==
    /\ apc = "idle"
    /\ Serial
    /\ NoBuild
    /\ IF ~vectorstores_ready
       THEN /\ apc' = "raised"
            /\ trace' = <<"raise">>
            /\ obs' = NoObs
            /\ UNCHANGED <<state, response>>
       ELSE \E question \in Questions : ask(question)
    /\ UNCHANGED <<host, call, disk, indexes, vectorstores_ready, builder>>

\* the node retrieve_facts, line 65: the test of the shared field
RetrieveFacts ==
    /\ apc = "retrieve_facts"
    /\ obs' = [obs EXCEPT !.half_built = @ \/ HalfBuilt(facts_vectorstore, snap.facts)]
    /\ trace' = trace \o <<"retrieve_facts">>
    /\ IF facts_vectorstore.exists
       THEN /\ apc' = "facts_search"
            /\ UNCHANGED state
       ELSE /\ state' = retrieve_facts(state, facts_vectorstore, <<>>)
            /\ apc' = "check_sensitivity"
    /\ UNCHANGED <<host, call, disk, indexes, vectorstores_ready, builder, response>>

\* the node retrieve_facts, lines 66-75: the field is read again for the
\* search; None has no similarity_search, so the read raises AttributeError
\* when a build has reset the field since the test
SearchFacts ==
    /\ apc = "facts_search"
    /\ obs' = [obs EXCEPT !.half_built = @ \/ HalfBuilt(facts_vectorstore, snap.facts)]
    /\ IF facts_vectorstore.exists
       THEN \/ \E docs \in similarity_search(facts_vectorstore, state.question, top_k_retrieval) :
                 /\ state' = retrieve_facts(state, facts_vectorstore, docs)
                 /\ trace' = trace \o <<"facts.search">>
                 /\ apc' = "check_sensitivity"
            \/ /\ trace' = trace \o <<"facts.search", "raise">>
               /\ apc' = "raised"
               /\ UNCHANGED state
       ELSE /\ trace' = trace \o <<"raise">>
            /\ apc' = "raised"
            /\ UNCHANGED state
    /\ UNCHANGED <<host, call, disk, indexes, vectorstores_ready, builder, response>>

\* the node check_sensitivity
CheckSensitivity ==
    /\ apc = "check_sensitivity"
    /\ state' = check_sensitivity(state)
    /\ trace' = trace \o <<"check_sensitivity">>
    /\ apc' = "retrieve_external"
    /\ UNCHANGED <<host, call, disk, indexes, vectorstores_ready, builder, response, obs>>

\* the node retrieve_external, lines 91-92: the gate and the test of the
\* shared field
RetrieveExternal ==
    /\ apc = "retrieve_external"
    /\ trace' = trace \o <<"retrieve_external">>
    /\ IF external_wanted(state)
       THEN /\ obs' = [obs EXCEPT !.half_built =
                                  @ \/ HalfBuilt(external_vectorstore, snap.external)]
            /\ IF external_vectorstore.exists
               THEN /\ apc' = "external_search"
                    /\ UNCHANGED state
               ELSE /\ state' = retrieve_external(state, external_vectorstore, <<>>)
                    /\ apc' = "generate_answer"
       ELSE /\ state' = retrieve_external(state, external_vectorstore, <<>>)
            /\ apc' = "generate_answer"
            /\ UNCHANGED obs
    /\ UNCHANGED <<host, call, disk, indexes, vectorstores_ready, builder, response>>

\* the node retrieve_external, lines 93-96: the field is read again for the
\* search, and the read raises AttributeError when it finds None
SearchExternal ==
    /\ apc = "external_search"
    /\ obs' = [obs EXCEPT !.half_built =
                          @ \/ HalfBuilt(external_vectorstore, snap.external)]
    /\ IF external_vectorstore.exists
       THEN \/ \E docs \in similarity_search(external_vectorstore, state.question, top_k_retrieval) :
                 /\ state' = retrieve_external(state, external_vectorstore, docs)
                 /\ trace' = trace \o <<"external.search">>
                 /\ apc' = "generate_answer"
            \/ /\ trace' = trace \o <<"external.search", "raise">>
               /\ apc' = "raised"
               /\ UNCHANGED state
       ELSE /\ trace' = trace \o <<"raise">>
            /\ apc' = "raised"
            /\ UNCHANGED state
    /\ UNCHANGED <<host, call, disk, indexes, vectorstores_ready, builder, response>>

\* the node generate_answer, END, and ask lines 219-223
GenerateAnswer ==
    /\ apc = "generate_answer"
    /\ IF refusal(state) = "none"
       THEN \E llm \in LLMOutcomes :
                /\ state' = generate_answer(state, llm)
                /\ trace' = trace \o <<"generate_answer", "llm.invoke">>
                              \o (IF llm.raised THEN <<"raise">> ELSE <<>>)
       ELSE /\ state' = generate_answer(state, [raised |-> FALSE, content |-> <<>>])
            /\ trace' = trace \o <<"generate_answer">>
    /\ response' = AnswerResponse(state'.answer, state'.status, state'.citations)
    /\ apc' = "returned"
    /\ UNCHANGED <<host, call, disk, indexes, vectorstores_ready, builder, obs>>

\* the caller takes the response, or the exception, of ask; in main.py
\* ask_question returns the response, or raises HTTPException(500) for an
\* exception of ask (lines 50-54)
AskReturn ==
    /\ apc \in {"returned", "raised"}
    /\ apc' = "idle"
    /\ state' = NoState
    /\ response' = NoResponse
    /\ trace' = <<>>
    /\ obs' = NoObs
    /\ UNCHANGED <<host, call, disk, indexes, vectorstores_ready, builder>>

\* --------------------------------------------------------- direct calls

(***************************************************************************)
(* A caller hands one function its arguments, in call, and calls it up to  *)
(* MaxCalls times; results holds what each call returned.                  *)
(***************************************************************************)

\* no function is called directly
NoCall == [fn |-> "none"]

\* the answers validated: two sentences without a number token of their
\* own choice, one sentence per number token, and pairs of such sentences
AnswerWith(number) ==
    <<"I", "t", " ", "i", "s", " ">> \o number \o <<" ", "k", "m", ".">>

Answers ==
    {AnsPlain, AnsHedged, <<"L","I","U212A","E","L","Y">>}
        \cup {AnswerWith(number) : number \in NumberTokens}
        \cup {AnswerWith(a) \o <<" ">> \o AnswerWith(b) :
                 a, b \in {<<"1", "5", "0", "0">>, <<"2", "0", "2", "1">>, <<"9", "9">>}}

\* the passage lists validated against: up to two sample passages
SourceLists ==
    {<<>>}
        \cup {<<Doc("sample", i)>> : i \in 1..Len(SampleTexts)}
        \cup {<<Doc("sample", i), Doc("sample", j)>> : i, j \in 1..Len(SampleTexts)}

ValidateCalls ==
    {[fn |-> "validate_answer", answer |-> answer, sources |-> sources,
      results |-> <<>>] : answer \in Answers, sources \in SourceLists}

SensitiveCalls ==
    {[fn |-> "is_sensitive_question", question |-> question, results |-> <<>>] :
        question \in Questions \cup QuestionTexts}

\* the authoritative files loaded: k chunks of two alternating texts
FactsTexts(k, first) ==
    [n \in 1..k |-> IF (n + first) % 2 = 0 THEN Repeat("x", 51) ELSE Repeat("z", 10)]

FactsFiles ==
    {[status |-> status, texts |-> FactsTexts(k, first)] :
        status \in {"ok", "missing", "unreadable"},
        k \in (0..MaxChunks) \cup {12}, first \in {0, 1}}

(***************************************************************************)
(* The supplemental files loaded.  A record comes with texts, what         *)
(* split_text yields for its transcript.  The records are: objects        *)
(* without a transcript, with a transcript that is empty, of 19           *)
(* characters, of 19 characters between blanks, of 20 and of 30           *)
(* characters, and longer than chunk_size and cut in two or three; and    *)
(* the records that are no such objects: a string, a string and a list    *)
(* that hold the name of a key, a list, None, a number, and objects whose *)
(* transcript or transcriptText is of another type than the loader reads. *)
(***************************************************************************)
Item(item, texts) == [item |-> item, texts |-> texts]

\* {"transcript": text}
Flat(text) == Dict(<<<<transcript_key, text>>>>)

\* {"transcriptText": {"content": text}}
Nested(text) == Dict(<<<<transcriptText_key, Dict(<<<<content_key, text>>>>)>>>>)

Thirty == Str(Repeat("y", 30))

Items ==
    {Item(Dict(<<>>), <<>>),
     Item(Flat(Str(<<>>)), <<>>),
     Item(Flat(Str(Repeat("y", 19))), <<>>),
     Item(Nested(Str(<<" ", " ">> \o Repeat("y", 19) \o <<" ", "\n">>)), <<>>),
     Item(Nested(Str(Repeat("y", 20))), <<>>),
     Item(Flat(Thirty), <<>>),
     Item(Flat(Str(Repeat("y", chunk_size + 1))),
          <<Repeat("y", chunk_size), Repeat("y", 101)>>),
     Item(Nested(Str(Repeat("y", chunk_size + 1))),
          <<Repeat("y", 20), Repeat("y", 21), <<" ", " ">> \o Repeat("y", 19)>>),
     Item(Str(<<"a", "b", "c">>), <<>>),
     Item(Str(transcript_key), <<>>),
     Item(List(<<Str(<<"a", "b", "c">>)>>), <<>>),
     Item(List(<<Str(transcriptText_key)>>), <<>>),
     Item(null, <<>>),
     Item(Number(7), <<>>),
     Item(Flat(null), <<>>),
     Item(Flat(Number(0)), <<>>),
     Item(Flat(Number(5)), <<>>),
     Item(Flat(List(<<Thirty>>)), <<>>),
     Item(Dict(<<<<transcriptText_key, null>>>>), <<>>),
     Item(Dict(<<<<transcriptText_key, Str(content_key)>>>>), <<>>),
     Item(Dict(<<<<transcriptText_key, Str(<<"a", "b", "c">>)>>,
                 <<transcript_key, Thirty>>>>), <<>>),
     Item(Dict(<<<<transcriptText_key, Dict(<<>>)>>,
                 <<transcript_key, Thirty>>>>), <<>>),
     Item(Nested(null), <<>>),
     Item(Nested(Number(5)), <<>>)}

\* the record at position n carries n as its video_id, when it is an object
WithId(item, n) ==
    IF item.type = "dict"
    THEN Dict(<<<<video_id_key, Number(n)>>>> \o item.entries)
    ELSE item

\* a JSON array of up to MaxRecords records, or another JSON value in the
\* place of the array
ExternalData ==
    UNION {{[data |-> List([n \in 1..k |-> WithId(items[n].item, n)]),
             texts |-> [n \in 1..k |-> items[n].texts]] :
               items \in [1..k -> Items]} : k \in 0..MaxRecords}
        \cup {[data |-> data, texts |-> <<<<>>, <<>>, <<>>>>] :
                 data \in {null, Number(7), Str(<<"a", "b", "c">>),
                           Flat(Thirty), WithId(Flat(Thirty), 1)}}

ExternalFiles ==
    {[status |-> status, data |-> parsed.data, texts |-> parsed.texts] :
        status \in {"ok", "missing", "invalid_json"}, parsed \in ExternalData}

LoadFactsCalls ==
    {[fn |-> "load_facts", file |-> file, results |-> <<>>] : file \in FactsFiles}

LoadExternalCalls ==
    {[fn |-> "load_external", file |-> file, results |-> <<>>] :
        file \in ExternalFiles}

\* a call of DocumentProcessor.load_facts
LoadFacts ==
    /\ call.fn = "load_facts"
    /\ Len(call.results) < MaxCalls
    /\ call' = [call EXCEPT !.results = Append(@, load_facts_file(call.file))]
    /\ UNCHANGED <<host, disk, indexes, vectorstores_ready, builder, asker>>

\* a call of DocumentProcessor.load_external
LoadExternal ==
    /\ call.fn = "load_external"
    /\ Len(call.results) < MaxCalls
    /\ call' = [call EXCEPT !.results = Append(@, load_external_file(call.file))]
    /\ UNCHANGED <<host, disk, indexes, vectorstores_ready, builder, asker>>

\* a call of GuardrailsChecker.validate_answer
ValidateAnswer ==
    /\ call.fn = "validate_answer"
    /\ Len(call.results) < MaxCalls
    /\ call' = [call EXCEPT !.results =
                     Append(@, validate_answer(call.answer, call.sources))]
    /\ UNCHANGED <<host, disk, indexes, vectorstores_ready, builder, asker>>

\* a call of GuardrailsChecker.is_sensitive_question
IsSensitiveQuestion ==
    /\ call.fn = "is_sensitive_question"
    /\ Len(call.results) < MaxCalls
    /\ call' = [call EXCEPT !.results =
                     Append(@, is_sensitive_question(call.question))]
    /\ UNCHANGED <<host, disk, indexes, vectorstores_ready, builder, asker>>

\* ------------------------------------------------------- the specification

\* a supplemental file of k records, each kept as a whole
Whole(k) == [n \in 1..k |-> <<n, 1>>]

\* the supplemental files: no record; a record that is skipped and one
\* split in two whose first sub-chunk is dropped; one more record than a
\* batch holds
ExternalSizes == {Whole(0), <<<<2, 2>>>>, Whole(batch_size + 1)}

\* the supplemental files for the builder alone: up to
\* MaxBatches batches, the last one full, holding one passage, or partly
\* filled; and a record that is skipped, one split in two, one whole
BuildSizes ==
    {Whole(0), <<<<2, 1>>, <<2, 2>>, <<3, 1>>>>}
        \cup UNION {{Whole((k - 1) * batch_size + 1),
                     Whole((k - 1) * batch_size + 5),
                     Whole(k * batch_size)} : k \in 1..MaxBatches}

\* DocumentProcessor.__init__ and RAGPipeline.__init__, no call made yet;
\* they leave the cache directory as it is
Constructed ==
    /\ facts_vectorstore = None
    /\ external_vectorstore = None
    /\ vectorstores_ready = FALSE
    /\ bpc = "idle"
    /\ vectorstore = None
    /\ batch_i = 0
    /\ failed = {}
    /\ rebuilt = {}
    /\ restored = {}
    /\ snap = [facts |-> None, external |-> None]
    /\ log = <<>>
    /\ apc = "idle"
    /\ state = NoState
    /\ response = NoResponse
    /\ trace = <<>>
    /\ obs = NoObs

\* the numbers of passages of the authoritative file for the builder alone:
\* up to MaxFacts, and one more than a batch holds
FactsSizes == (0..MaxFacts) \cup {batch_size + 1}

\* _create_vectorstore_batched lines 246-256: the passages of documents a
\* rebuild inserts when the batches whose numbers are in js raise
AllButBatches(documents, js) ==
    Flatten([j \in 1..((Len(documents) + batch_size - 1) \div batch_size) |->
                IF j \in js THEN <<>>
                ELSE SubSeq(documents, (j - 1) * batch_size + 1,
                            Min(j * batch_size, Len(documents)))])

\* the supplemental indexes a build of the same files saves: the first
\* batch inserted, any of the later ones left out
ExternalLeft ==
    IF load_external = <<>> THEN {}
    ELSE {FAISS(AllButBatches(load_external, js)) :
             js \in SUBSET (2..((Len(load_external) + batch_size - 1) \div batch_size))}

\* the cache directory as the process finds it: empty, or as former
\* processes left it after builds from the same files, the authoritative
\* index saved alone or with a supplemental one
CachesLeft ==
    {[facts |-> None, external |-> None]}
        \cup IF load_facts = <<>> THEN {}
             ELSE {[facts |-> FAISS(load_facts), external |-> external] :
                      external \in {None} \cup ExternalLeft}

\* the programs that hold a pipeline
Hosts == {"main", "threads"}

InitWith(sizes) ==
    /\ facts_file \in 0..MaxFacts
    /\ external_file \in
           {[exists |-> FALSE, kept |-> <<>>]}
               \cup {[exists |-> TRUE, kept |-> kept] : kept \in sizes}
    /\ \E left \in CachesLeft :
           /\ facts_cache = left.facts
           /\ external_cache = left.external
    /\ Constructed
    /\ call = NoCall
    /\ host \in Hosts

Init == InitWith(ExternalSizes)

Build ==
    \/ LoadFactsCache
    \/ LoadExternalCache
    \/ CreateFromScratch
    \/ BatchedFirst
    \/ BatchedAdd
    \/ BatchedReturn
    \/ SaveToCache
    \/ SetReady

Question ==
    \/ Ask
    \/ AskQuestion
    \/ RetrieveFacts
    \/ SearchFacts
    \/ CheckSensitivity
    \/ RetrieveExternal
    \/ SearchExternal
    \/ GenerateAnswer
    \/ AskReturn

Next == Build \/ Question

\* the service: one builder and one asker, interleaved
Spec == Init /\ [][Next]_vars

\* the builder alone, over supplemental files of up to MaxBatches batches
InitBuild ==
    /\ facts_file \in FactsSizes
    /\ external_file \in
           {[exists |-> FALSE, kept |-> <<>>]}
               \cup {[exists |-> TRUE, kept |-> kept] : kept \in BuildSizes}
    /\ \E left \in CachesLeft :
           /\ facts_cache = left.facts
           /\ external_cache = left.external
    /\ Constructed
    /\ call = NoCall
    /\ host = "main"
SpecBuild == InitBuild /\ [][Build]_vars

\* one function of the guardrails or of the loaders, called directly
InitCalls ==
    /\ facts_file = 0
    /\ external_file = [exists |-> FALSE, kept |-> <<>>]
    /\ facts_cache = None
    /\ external_cache = None
    /\ Constructed
    /\ host = "threads"
    /\ \/ call \in ValidateCalls
       \/ call \in SensitiveCalls
       \/ call \in LoadFactsCalls
       \/ call \in LoadExternalCalls

Calls ==
    \/ ValidateAnswer
    \/ IsSensitiveQuestion
    \/ LoadFacts
    \/ LoadExternal

SpecCalls == InitCalls /\ [][Calls]_vars

\* the steps of a call of initialize_vectorstores once it is made: the
\* call runs on one thread, which goes on to its next statement
BuildStep ==
    \/ LoadExternalCache
    \/ CreateFromScratch
    \/ BatchedFirst
    \/ BatchedAdd
    \/ BatchedReturn
    \/ SaveToCache
    \/ SetReady

\* the builder alone, a call made running on to its end
SpecBuildFair == SpecBuild /\ WF_vars(BuildStep)

\* ------------------------------------------------------------- properties

\* the last two entries of the trace
LlmRaised ==
    /\ Len(trace) >= 2
    /\ trace[Len(trace)] = "raise"
    /\ trace[Len(trace) - 1] = "llm.invoke"

ExternalSearched == "external.search" \in Range(trace)

\* the question in flight is past the node retrieve_facts
FactsRetrieved == "retrieve_facts" \in Range(trace)

Price == <<"p", "r", "i", "c", "e">>

\* C1: the Supplemental index is searched only when needs_external is true
\* and is_sensitive is false (so never for a sensitive question); in every
\* other case retrieved_external is empty when generate_answer runs.
C1_SupplementalGate ==
    /\ ExternalSearched =>
           /\ state.needs_external
           /\ ~state.is_sensitive
           /\ ~is_sensitive_question(state.question)
    /\ (apc = "generate_answer" /\ ~(state.needs_external /\ ~state.is_sensitive)) =>
           /\ ~ExternalSearched
           /\ state.retrieved_external = <<>>

\* a sensitive question without sufficient facts stands before
\* generate_answer, the Supplemental index exists and was not searched
C1_Witness ==
    /\ apc = "generate_answer"
    /\ state.is_sensitive
    /\ state.needs_external
    /\ external_vectorstore.exists
    /\ ~ExternalSearched
    /\ state.retrieved_external = <<>>

\* C2: with the indexes built, a question containing "price" whose
\* authoritative retrieval returned no passage is answered with status
\* refused_sensitive and no citations.
C2_PriceRefused ==
    (/\ apc = "returned"
     /\ obs.ready
     /\ Contains(Price, Lower(state.question))
     /\ FactsRetrieved
     /\ state.retrieved_facts = <<>>) =>
        /\ response.status = "refused_sensitive"
        /\ response.citations = <<>>

\* C3: a question that is not answered not_ready reads each index as a
\* completed call of initialize_vectorstores left it, never as a call
\* under way has it.
C3_NoHalfBuiltRead == ~obs.half_built

\* C4: with the indexes built, a collaborator that raises during ask (a
\* similarity search included) gives a response of status error; no
\* exception escapes ask.
C4_NoEscape ==
    (obs.ready /\ "raise" \in Range(trace)) =>
        /\ apc = "returned"
        /\ response.status = "error"

\* C5: when the generation service is invoked and raises, ask returns
\* status error, the fixed apology and no citations; the exception does not
\* leave ask.
C5_GenerationError ==
    LlmRaised =>
        /\ apc = "returned"
        /\ response = AnswerResponse(MsgError, "error", <<>>)

C5_Witness == LlmRaised /\ apc = "returned" /\ all_sources(state) # <<>>

\* C6: a call of ask that finds the readiness flag false returns not_ready with no
\* citations at once: no node runs and no collaborator is called.
C6_NotReady ==
    (obs.called /\ ~obs.ready) =>
        /\ apc = "returned"
        /\ response.status = "not_ready"
        /\ response.citations = <<>>
        /\ trace = <<>>
        /\ state = NoState

\* not_ready is answered while a first build stands before setting the flag
C6_Witness ==
    /\ obs.called
    /\ apc = "returned"
    /\ response.status = "not_ready"
    /\ ~obs.ready
    /\ bpc = "set_ready"
    /\ facts_vectorstore.exists

\* the citation of the i-th combined passage, authoritative passages first
ExpectedCitation(i) ==
    LET doc == IF i <= Len(state.retrieved_facts)
               THEN state.retrieved_facts[i]
               ELSE state.retrieved_external[i - Len(state.retrieved_facts)]
    IN  [source |-> metadata(doc).source, doc_id |-> metadata(doc).doc_id,
         chunk_id |-> metadata(doc).chunk_id]

\* C7: a response of status answered cites every combined passage once,
\* authoritative passages first, each by its (source, doc_id, chunk_id);
\* a response of any other status has no citations.
C7_Citations ==
    apc = "returned" =>
        IF response.status = "answered"
        THEN response.citations =
                 [i \in 1..(Len(state.retrieved_facts) + Len(state.retrieved_external))
                    |-> ExpectedCitation(i)]
        ELSE response.citations = <<>>

C7_Witness ==
    /\ apc = "returned"
    /\ response.status = "answered"
    /\ state.retrieved_facts # <<>>
    /\ state.retrieved_external # <<>>
    /\ Len(response.citations) >= 2

\* some retrieved authoritative passage is longer than 50 characters, trimmed
StrongCoverage ==
    \E i \in 1..Len(state.retrieved_facts) :
        Len(Strip(page_content(state.retrieved_facts[i]))) > 50

\* C8: for a question with no sensitive term whose authoritative retrieval
\* returned a passage longer than 50 characters once trimmed, needs_external
\* is false and the Supplemental index is not searched.
C8_StrongCoverage ==
    (/\ FactsRetrieved
     /\ ~is_sensitive_question(state.question)
     /\ StrongCoverage) =>
        /\ ~state.needs_external
        /\ ~ExternalSearched

\* the case with a short passage retrieved beside the long one, and a
\* Supplemental index in place
C8_Witness ==
    /\ apc = "generate_answer"
    /\ ~is_sensitive_question(state.question)
    /\ StrongCoverage
    /\ \E i \in 1..Len(state.retrieved_facts) :
           Len(Strip(page_content(state.retrieved_facts[i]))) <= 50
    /\ external_vectorstore.exists

\* the passages of documents outside batch number j
AllButBatch(documents, j) ==
    SubSeq(documents, 1, (j - 1) * batch_size)
        \o SubSeq(documents, j * batch_size + 1, Len(documents))

\* the batched rebuild of this call has returned
BatchedDone == bpc \in {"save_to_cache", "set_ready"} /\ "external" \in rebuilt

\* C9 as stated: when exactly one batch fails, the initial batch included,
\* the rebuild ends with an index of the passages of all other batches.
C9_AnyOneBatch ==
    (BatchedDone /\ Cardinality(failed) = 1) =>
        \A j \in failed :
            /\ external_vectorstore.exists
            /\ external_vectorstore.docs = AllButBatch(load_external, j)

\* C9 amended: when exactly one insert of a later batch fails, the rebuild
\* ends with an index of the passages of all other batches; when the
\* construction from the initial batch fails, no other batch is tried and
\* the rebuild ends with no index.
C9_OneLaterBatch ==
    BatchedDone =>
        /\ \A j \in failed :
               (failed = {j} /\ j >= 2) =>
                   /\ external_vectorstore.exists
                   /\ external_vectorstore.docs = AllButBatch(load_external, j)
        /\ 1 \in failed => (failed = {1} /\ external_vectorstore = None)

\* three batches, the second failed, the third inserted after it
C9_Witness ==
    /\ BatchedDone
    /\ failed = {2}
    /\ Len(load_external) = 2 * batch_size + 5
    /\ Len(external_vectorstore.docs) = batch_size + 5

\* C10: a build call after a completed one leaves each index with the
\* passages the first call left, none twice, and rebuilds no index.
C10_SecondBuildNoOp ==
    (bpc = "set_ready" /\ vectorstores_ready) =>
        /\ rebuilt = {}
        /\ facts_vectorstore.exists = snap.facts.exists
        /\ external_vectorstore.exists = snap.external.exists
        /\ Range(facts_vectorstore.docs) = Range(snap.facts.docs)
        /\ Range(external_vectorstore.docs) = Range(snap.external.docs)
        /\ Cardinality(Range(facts_vectorstore.docs)) = Len(facts_vectorstore.docs)
        /\ Cardinality(Range(external_vectorstore.docs)) = Len(external_vectorstore.docs)

\* C11: when the Authoritative index is not restored from the cache and
\* ingestion yields no authoritative passage, the build raises: no
\* Authoritative index exists, the readiness flag stays false, and an ask
\* made then returns not_ready (POST /ask of main.py, which does not call
\* ask then, raises).
C11_NoFactsAbort ==
    (load_facts = <<>> /\ ~facts_cache.exists) =>
        /\ ~facts_vectorstore.exists
        /\ ~vectorstores_ready
        /\ bpc \in {"idle", "load_external_cache", "from_scratch", "raised"}
        /\ obs.called => (apc = "returned" /\ response.status = "not_ready")
        /\ ~obs.called => (apc = "idle" \/ (Serial /\ apc = "raised"))

\* the build has raised for want of authoritative passages, and the ask
\* made after it has returned not_ready
C11_Witness ==
    /\ load_facts = <<>>
    /\ bpc = "raised"
    /\ ~facts_vectorstore.exists
    /\ ~vectorstores_ready
    /\ apc = "returned"
    /\ response.status = "not_ready"
    /\ ~obs.ready

\* the function fn was called directly, and returned
Called(fn) == call.fn = fn /\ call.results # <<>>

\* the texts of the passages, joined as validate_answer joins them
SourceText(sources) ==
    Join(<<" ">>, [i \in 1..Len(sources) |-> page_content(sources[i])])

\* the answer holds number as one of its number tokens
HasToken(answer, number) ==
    \E i \in 1..Len(FindNumbers(answer)) : FindNumbers(answer)[i] = number

NoFabricationPhrase(answer) ==
    \A i \in 1..Len(fabrication_indicators) :
        ~Contains(fabrication_indicators[i], Lower(answer))

Token1500 == <<"1", "5", "0", "0">>
Token2021 == <<"2", "0", "2", "1">>

\* C12: validate_answer returns False for every answer that holds the
\* number token "1500" when the sources are not empty and "1500" occurs
\* nowhere in their joined text.
C12_AbsentNumberFails ==
    (/\ Called("validate_answer")
     /\ call.sources # <<>>
     /\ HasToken(call.answer, Token1500)
     /\ ~Contains(Token1500, SourceText(call.sources))) =>
        \A r \in 1..Len(call.results) : call.results[r] = FALSE

\* such an answer without a fabrication phrase
C12_Witness ==
    /\ Called("validate_answer")
    /\ call.sources # <<>>
    /\ HasToken(call.answer, Token1500)
    /\ ~Contains(Token1500, SourceText(call.sources))
    /\ NoFabricationPhrase(call.answer)
    /\ call.results[1] = FALSE

\* the value of a number token lies outside the range 100..2030, ends included
OutsideRange(number) ==
    LET num_val == ParseFloat(number)
    IN  /\ num_val.ok
        /\ (num_val.lt_100 \/ num_val.gt_2030)

\* C13: with sources that are not empty and no fabrication phrase in the
\* answer, validate_answer returns True for an answer whose only number
\* token is "2021" when the sources do not hold "2021"; an answer fails the
\* number check only for a token outside 100..2030 that the sources do not
\* hold.
C13_YearExempt ==
    (/\ Called("validate_answer")
     /\ call.sources # <<>>
     /\ NoFabricationPhrase(call.answer)) =>
        /\ (/\ FindNumbers(call.answer) = <<Token2021>>
            /\ ~Contains(Token2021, SourceText(call.sources))) =>
               call.results[1] = TRUE
        /\ call.results[1] = FALSE =>
               \E i \in 1..Len(FindNumbers(call.answer)) :
                   /\ OutsideRange(FindNumbers(call.answer)[i])
                   /\ ~Contains(FindNumbers(call.answer)[i], SourceText(call.sources))

\* the characters c.upper() changes, and, at the same position, the text
\* it gives
UpperFrom ==
    <<"a","b","c","d","e","f","g","h","i","j","k","l","m","n","o","p","q",
      "r","s","t","u","v","w","x","y","z","U00B5","U00DF","U00E0","U00E1",
      "U00E2","U00E3","U00E4","U00E5","U00E6","U00E7","U00E8","U00E9",
      "U00EA","U00EB","U00EC","U00ED","U00EE","U00EF","U00F0","U00F1",
      "U00F2","U00F3","U00F4","U00F5","U00F6","U00F8","U00F9","U00FA",
      "U00FB","U00FC","U00FD","U00FE","U00FF","U0101","U0103","U0105",
      "U0107","U0109","U010B","U010D","U010F","U0111","U0113","U0115",
      "U0117","U0119","U011B","U011D","U011F","U0121","U0123","U0125",
      "U0127","U0129","U012B","U012D","U012F","U0131","U0133","U0135",
      "U0137","U013A","U013C","U013E","U0140","U0142","U0144","U0146",
      "U0148","U0149","U014B","U014D","U014F","U0151","U0153","U0155",
      "U0157","U0159","U015B","U015D","U015F","U0161","U0163","U0165",
      "U0167","U0169","U016B","U016D","U016F","U0171","U0173","U0175",
      "U0177","U017A","U017C","U017E","U017F","U0371","U0373","U0377",
      "U037B","U037C","U037D","U0390","U03AC","U03AD","U03AE","U03AF",
      "U03B0","U03B1","U03B2","U03B3","U03B4","U03B5","U03B6","U03B7",
      "U03B8","U03B9","U03BA","U03BB","U03BC","U03BD","U03BE","U03BF",
      "U03C0","U03C1","U03C2","U03C3","U03C4","U03C5","U03C6","U03C7",
      "U03C8","U03C9","U03CA","U03CB","U03CC","U03CD","U03CE","U03D0",
      "U03D1","U03D5","U03D6","U03D7","U03D9","U03DB","U03DD","U03DF",
      "U03E1","U03E3","U03E5","U03E7","U03E9","U03EB","U03ED","U03EF",
      "U03F0","U03F1","U03F2","U03F3","U03F5","U03F8","U03FB">>

UpperTo ==
    <<<<"A">>,<<"B">>,<<"C">>,<<"D">>,<<"E">>,<<"F">>,<<"G">>,<<"H">>,
      <<"I">>,<<"J">>,<<"K">>,<<"L">>,<<"M">>,<<"N">>,<<"O">>,<<"P">>,
      <<"Q">>,<<"R">>,<<"S">>,<<"T">>,<<"U">>,<<"V">>,<<"W">>,<<"X">>,
      <<"Y">>,<<"Z">>,<<"U039C">>,<<"S","S">>,<<"U00C0">>,<<"U00C1">>,
      <<"U00C2">>,<<"U00C3">>,<<"U00C4">>,<<"U00C5">>,<<"U00C6">>,
      <<"U00C7">>,<<"U00C8">>,<<"U00C9">>,<<"U00CA">>,<<"U00CB">>,
      <<"U00CC">>,<<"U00CD">>,<<"U00CE">>,<<"U00CF">>,<<"U00D0">>,
      <<"U00D1">>,<<"U00D2">>,<<"U00D3">>,<<"U00D4">>,<<"U00D5">>,
      <<"U00D6">>,<<"U00D8">>,<<"U00D9">>,<<"U00DA">>,<<"U00DB">>,
      <<"U00DC">>,<<"U00DD">>,<<"U00DE">>,<<"U0178">>,<<"U0100">>,
      <<"U0102">>,<<"U0104">>,<<"U0106">>,<<"U0108">>,<<"U010A">>,
      <<"U010C">>,<<"U010E">>,<<"U0110">>,<<"U0112">>,<<"U0114">>,
      <<"U0116">>,<<"U0118">>,<<"U011A">>,<<"U011C">>,<<"U011E">>,
      <<"U0120">>,<<"U0122">>,<<"U0124">>,<<"U0126">>,<<"U0128">>,
      <<"U012A">>,<<"U012C">>,<<"U012E">>,<<"I">>,<<"U0132">>,<<"U0134">>,
      <<"U0136">>,<<"U0139">>,<<"U013B">>,<<"U013D">>,<<"U013F">>,
      <<"U0141">>,<<"U0143">>,<<"U0145">>,<<"U0147">>,<<"U02BC","N">>,
      <<"U014A">>,<<"U014C">>,<<"U014E">>,<<"U0150">>,<<"U0152">>,
      <<"U0154">>,<<"U0156">>,<<"U0158">>,<<"U015A">>,<<"U015C">>,
      <<"U015E">>,<<"U0160">>,<<"U0162">>,<<"U0164">>,<<"U0166">>,
      <<"U0168">>,<<"U016A">>,<<"U016C">>,<<"U016E">>,<<"U0170">>,
      <<"U0172">>,<<"U0174">>,<<"U0176">>,<<"U0179">>,<<"U017B">>,
      <<"U017D">>,<<"S">>,<<"U0370">>,<<"U0372">>,<<"U0376">>,<<"U03FD">>,
      <<"U03FE">>,<<"U03FF">>,<<"U0399","U0308","U0301">>,<<"U0386">>,
      <<"U0388">>,<<"U0389">>,<<"U038A">>,<<"U03A5","U0308","U0301">>,
      <<"U0391">>,<<"U0392">>,<<"U0393">>,<<"U0394">>,<<"U0395">>,
      <<"U0396">>,<<"U0397">>,<<"U0398">>,<<"U0399">>,<<"U039A">>,
      <<"U039B">>,<<"U039C">>,<<"U039D">>,<<"U039E">>,<<"U039F">>,
      <<"U03A0">>,<<"U03A1">>,<<"U03A3">>,<<"U03A3">>,<<"U03A4">>,
      <<"U03A5">>,<<"U03A6">>,<<"U03A7">>,<<"U03A8">>,<<"U03A9">>,
      <<"U03AA">>,<<"U03AB">>,<<"U038C">>,<<"U038E">>,<<"U038F">>,
      <<"U0392">>,<<"U0398">>,<<"U03A6">>,<<"U03A0">>,<<"U03CF">>,
      <<"U03D8">>,<<"U03DA">>,<<"U03DC">>,<<"U03DE">>,<<"U03E0">>,
      <<"U03E2">>,<<"U03E4">>,<<"U03E6">>,<<"U03E8">>,<<"U03EA">>,
      <<"U03EC">>,<<"U03EE">>,<<"U039A">>,<<"U03A1">>,<<"U03F9">>,
      <<"U037F">>,<<"U0395">>,<<"U03F7">>,<<"U03FA">>>>

UpperFromSet == Range(UpperFrom)

\* c.upper(), a text
UpperChar(c) ==
    IF c \in UpperFromSet
    THEN UpperTo[CHOOSE i \in 1..Len(UpperFrom) : UpperFrom[i] = c]
    ELSE <<c>>

\* str.upper()
Upper(s) == Flatten([i \in 1..Len(s) |-> UpperChar(s[i])])

\* str.swapcase(): the cased characters that c.upper() leaves are upper case
SwapCase(s) ==
    Flatten([i \in 1..Len(s) |->
                IF UpperChar(s[i]) = <<s[i]>> THEN LowerAt(s, i) ELSE UpperChar(s[i])])

\* the question in lower case, in upper case, and with the case of every
\* letter changed
CaseVariants(question) == {Lower(question), Upper(question), SwapCase(question)}

\* the question with keyword put in after its first i characters
Inserted(question, i, keyword) ==
    SubSeq(question, 1, i) \o keyword \o SubSeq(question, i + 1, Len(question))

\* C14 as stated: is_sensitive_question is true exactly when the question
\* in lower case holds a configured topic; it gives the same for every case
\* variant of the question, and a sensitive question with a further topic
\* put in anywhere, in lower or upper case, is still sensitive.
C14_Sensitivity ==
    Called("is_sensitive_question") =>
        \A r \in 1..Len(call.results) :
            /\ call.results[r] =
                   \E t \in 1..Len(sensitive_topics) :
                       Contains(sensitive_topics[t], Lower(call.question))
            /\ \A variant \in CaseVariants(call.question) :
                   is_sensitive_question(variant) = call.results[r]
            /\ call.results[r] =>
                   \A t \in 1..Len(sensitive_topics), i \in 0..Len(call.question) :
                       \A keyword \in CaseVariants(sensitive_topics[t]) :
                           is_sensitive_question(Inserted(call.question, i, keyword))

\* the printable characters of ASCII
Ascii ==
    {UpperCase[i] : i \in 1..26} \cup {LowerCase[i] : i \in 1..26}
        \cup Range(Digits)
        \cup {" ", "!", "\"", "#", "$", "%", "&", "'", "(", ")", "*", "+", ",",
              "-", ".", "/", ":", ";", "<", "=", ">", "?", "@", "[", "\\", "]",
              "^", "_", "U0060", "{", "|", "}", "~"}

\* C14 amended: is_sensitive_question is true exactly when the question in
\* lower case holds a configured topic; it gives the same for every case
\* variant that has the same lower case as the question, which every case
\* variant of a question of ASCII characters has; a sensitive question
\* with a further topic put in anywhere, in lower or upper case, is still
\* sensitive.
C14_SameLowerCase ==
    Called("is_sensitive_question") =>
        \A r \in 1..Len(call.results) :
            /\ call.results[r] =
                   \E t \in 1..Len(sensitive_topics) :
                       Contains(sensitive_topics[t], Lower(call.question))
            /\ \A variant \in CaseVariants(call.question) :
                   /\ Range(call.question) \subseteq Ascii =>
                          Lower(variant) = Lower(call.question)
                   /\ Lower(variant) = Lower(call.question) =>
                          is_sensitive_question(variant) = call.results[r]
            /\ call.results[r] =>
                   \A t \in 1..Len(sensitive_topics), i \in 0..Len(call.question) :
                       \A keyword \in CaseVariants(sensitive_topics[t]) :
                           is_sensitive_question(Inserted(call.question, i, keyword))

\* a question that is not of ASCII characters was found not sensitive, and
\* in upper case it is sensitive
C14_Witness ==
    /\ Called("is_sensitive_question")
    /\ call.results[1] = FALSE
    /\ ~(Range(call.question) \subseteq Ascii)
    /\ is_sensitive_question(Upper(call.question))

\* the number a doc_id or chunk_id ends with, after its letter
IdNumber(id) == DigitsValue(Tail(id))

\* C15: for a text that splits into k chunks load_facts returns k passages,
\* the n-th holding the n-th chunk with doc_id F{n} and chunk_id c{n}, so
\* the doc_ids are unique and dense from 1; a second load of the same file
\* returns the same passages.
C15_FactIds ==
    (Called("load_facts") /\ call.file.status = "ok") =>
        LET documents == call.results[1].documents
            texts == call.file.texts
        IN  /\ ~call.results[1].raised
            /\ Len(documents) = Len(texts)
            /\ \A n \in 1..Len(documents) :
                   /\ documents[n].page_content = texts[n]
                   /\ Head(documents[n].metadata.doc_id) = "F"
                   /\ IdNumber(documents[n].metadata.doc_id) = n
                   /\ Head(documents[n].metadata.chunk_id) = "c"
                   /\ IdNumber(documents[n].metadata.chunk_id) = n
            /\ \A m, n \in 1..Len(documents) :
                   m # n => documents[m].metadata.doc_id # documents[n].metadata.doc_id
            /\ \A r \in 1..Len(call.results) : call.results[r] = call.results[1]

\* a text of twelve chunks, loaded twice
C15_Witness ==
    /\ Called("load_facts")
    /\ call.file.status = "ok"
    /\ Len(call.file.texts) = 12
    /\ Len(call.results) = 2
    /\ Len(call.results[2].documents) = 12

\* the value of the field of the record, None when the record has none
Field(item, key) == Get(item, key, null)

\* the record is as the loader expects it: an object whose transcriptText,
\* if any, is an object with a string as content, if any, and whose
\* transcript, if any, is a string
WellFormed(item) ==
    /\ item.type = "dict"
    /\ In(transcriptText_key, item) =>
           /\ Field(item, transcriptText_key).type = "dict"
           /\ In(content_key, Field(item, transcriptText_key)) =>
                  Field(Field(item, transcriptText_key), content_key).type = "str"
    /\ In(transcript_key, item) => Field(item, transcript_key).type = "str"

\* the records of a file that holds a JSON array
Records(file) == file.data.elems

\* the file is read and parsed, and no record of it is malformed
Loadable(file) ==
    /\ file.status = "ok"
    /\ file.data.type = "list"
    /\ \A n \in 1..Len(Records(file)) : WellFormed(Records(file)[n])

\* the text extracted from a well-formed record
TextOf(item) == extract_transcript_content(item).value.s

\* the text of the record is empty or shorter than 20 characters
ShortRecord(item) == Len(TextOf(item)) < 20

\* C16: a supplemental record whose extracted text is empty or shorter than
\* 20 characters gives no passage, and every passage returned carries
\* doc_id E{n}, n being the position of its record among all records of the
\* file, the skipped ones counted.
C16_ExternalIds ==
    (Called("load_external") /\ Loadable(call.file)) =>
        LET documents == call.results[1].documents
            data == Records(call.file)
        IN  /\ \A n \in 1..Len(data) :
                   ShortRecord(data[n]) =>
                       \A d \in 1..Len(documents) :
                           documents[d].metadata.video_id # Number(n)
            /\ \A d \in 1..Len(documents) :
                   /\ \E n \in 1..Len(data) : documents[d].metadata.video_id = Number(n)
                   /\ Head(documents[d].metadata.doc_id) = "E"
                   /\ Number(IdNumber(documents[d].metadata.doc_id)) =
                          documents[d].metadata.video_id

\* a record of 19 characters skipped, and after it a record split into two
\* passages, both with doc_id E2
C16_Witness ==
    /\ Called("load_external")
    /\ Loadable(call.file)
    /\ Len(Records(call.file)) = 2
    /\ Len(TextOf(Records(call.file)[1])) = 19
    /\ Len(call.results[1].documents) = 2
    /\ \A d \in 1..2 :
           call.results[1].documents[d].metadata.doc_id = <<"E", "2">>

\* C17 as stated: when the file of a loader cannot be read or parsed, or a
\* record of it is malformed, load_facts and load_external return the empty
\* list and raise nothing.
C17_LoadFailure ==
    /\ (Called("load_facts") /\ call.file.status # "ok") =>
           \A r \in 1..Len(call.results) :
               ~call.results[r].raised /\ call.results[r].documents = <<>>
    /\ (Called("load_external") /\ ~Loadable(call.file)) =>
           \A r \in 1..Len(call.results) :
               ~call.results[r].raised /\ call.results[r].documents = <<>>

\* the loop of load_external raises on the record: the record is None or a
\* number; it is a string or a list that holds the name of a key; its
\* transcriptText is None or a number, or a string or a list that holds
\* 'content'; or the value extracted from it is true in Python and no string
RaisesOn(item) ==
    \/ item.type \in {"null", "number"}
    \/ /\ item.type \in {"str", "list"}
       /\ In(transcriptText_key, item) \/ In(transcript_key, item)
    \/ /\ item.type = "dict"
       /\ In(transcriptText_key, item)
       /\ \/ Field(item, transcriptText_key).type \in {"null", "number"}
          \/ /\ Field(item, transcriptText_key).type \in {"str", "list"}
             /\ In(content_key, Field(item, transcriptText_key))
    \/ LET extracted == extract_transcript_content(item)
       IN  /\ ~extracted.raised
           /\ Truthy(extracted.value)
           /\ extracted.value.type # "str"

\* the file cannot be opened or parsed, its top-level value cannot be
\* iterated, or the loop raises on one of the values it iterates over
RaisingFile(file) ==
    \/ file.status # "ok"
    \/ ~Iterable(file.data)
    \/ \E n \in 1..Len(Iterate(file.data)) : RaisesOn(Iterate(file.data)[n])

\* C17 amended: when reading, parsing or the processing of a record raises
\* (a missing file, invalid JSON, a record the loop raises on), load_facts
\* and load_external return the empty list and raise nothing.  A malformed
\* record on which nothing raises is skipped as a record without text is,
\* and the other records are loaded as if it were well formed: a record
\* that is no object or whose extracted value is None, 0 or empty gives no
\* passage, and a well-formed record of 20 to chunk_size characters gives
\* one passage with doc_id E{n}.
C17_RaisingFailure ==
    /\ (Called("load_facts") /\ call.file.status # "ok") =>
           \A r \in 1..Len(call.results) :
               ~call.results[r].raised /\ call.results[r].documents = <<>>
    /\ Called("load_external") =>
           \A r \in 1..Len(call.results) : ~call.results[r].raised
    /\ (Called("load_external") /\ RaisingFile(call.file)) =>
           \A r \in 1..Len(call.results) : call.results[r].documents = <<>>
    /\ (Called("load_external") /\ ~RaisingFile(call.file)
            /\ call.file.data.type = "list") =>
           LET documents == call.results[1].documents
               data == Records(call.file)
           IN  \A n \in 1..Len(data) :
                   LET passages == SelectSeq(documents,
                           LAMBDA doc : doc.metadata.video_id = Number(n))
                   IN  /\ (\/ data[n].type # "dict"
                           \/ ~Truthy(extract_transcript_content(data[n]).value)) =>
                              passages = <<>>
                       /\ (/\ WellFormed(data[n])
                           /\ Len(Strip(TextOf(data[n]))) >= 20
                           /\ Len(TextOf(data[n])) <= chunk_size) =>
                              /\ Len(passages) = 1
                              /\ passages[1].page_content = TextOf(data[n])
                              /\ passages[1].metadata.doc_id = Numbered("E", n)

\* a supplemental file whose second record holds a number as its
\* transcript, after a record that alone would have given a passage: the
\* load returns the empty list
C17_Witness ==
    /\ Called("load_external")
    /\ call.file.status = "ok"
    /\ call.file.data.type = "list"
    /\ Len(Records(call.file)) = 2
    /\ WellFormed(Records(call.file)[1])
    /\ ~too_short(TextOf(Records(call.file)[1]))
    /\ Records(call.file)[2].type = "dict"
    /\ Field(Records(call.file)[2], transcript_key) = Number(5)
    /\ call.results[1] = [raised |-> FALSE, documents |-> <<>>]

\* _create_graph: the nodes in the order of the edges, from the entry point
StageOrder ==
    <<"retrieve_facts", "check_sensitivity", "retrieve_external", "generate_answer">>

\* the nodes this ask has run, in the order they ran
Stages == SelectSeq(trace, LAMBDA event : event \in Range(StageOrder))

\* the position of the first entry of the trace that is event, 0 if none
FirstAt(event) ==
    IF event \in Range(trace)
    THEN CHOOSE k \in 1..Len(trace) :
             trace[k] = event /\ \A j \in 1..(k - 1) : trace[j] # event
    ELSE 0

\* C18: a question accepted with the indexes built runs the four nodes once
\* each, in the order retrieve_facts, check_sensitivity, retrieve_external,
\* generate_answer, and then ends; none is skipped or run again;
\* is_sensitive is set before retrieve_external reads it, and the
\* generation service is called only after both retrieval nodes.
C18_StagesInOrder ==
    obs.ready =>
        /\ Stages = SubSeq(StageOrder, 1, Len(Stages))
        /\ apc \in {"returned", "raised"} => Stages = StageOrder
        /\ "retrieve_external" \in Range(trace) =>
               /\ 0 < FirstAt("check_sensitivity")
               /\ FirstAt("check_sensitivity") < FirstAt("retrieve_external")
               /\ state.is_sensitive = is_sensitive_question(state.question)
        /\ "llm.invoke" \in Range(trace) =>
               /\ 0 < FirstAt("retrieve_facts")
               /\ FirstAt("retrieve_facts") < FirstAt("retrieve_external")
               /\ FirstAt("retrieve_external") < FirstAt("llm.invoke")

\* C19: generate_answer tests the combined passages first: when they are
\* empty the response is insufficient_info with its refusal message and no
\* citations and the generation service is not called, whether or not the
\* question is sensitive; insufficient_info is given in no other case.
C19_EmptySourcesFirst ==
    (apc = "returned" /\ obs.ready) =>
        /\ all_sources(state) = <<>> =>
               /\ response = AnswerResponse(MsgInsufficientInfo, "insufficient_info", <<>>)
               /\ "llm.invoke" \notin Range(trace)
        /\ response.status = "insufficient_info" => all_sources(state) = <<>>

\* a sensitive question with nothing retrieved, answered insufficient_info
C19_Witness ==
    /\ apc = "returned"
    /\ obs.ready
    /\ state.is_sensitive
    /\ all_sources(state) = <<>>
    /\ response.status = "insufficient_info"
    /\ "generate_answer" \in Range(trace)

\* the number of batches the batched rebuild cuts documents into
BatchCount(documents) == (Len(documents) + batch_size - 1) \div batch_size

\* the calls and sleeps of the batched rebuild of this call
BatchedLog ==
    SelectSeq(IF "facts" \in rebuilt THEN Tail(log) ELSE log,
              LAMBDA event : event.op \in {"from_documents", "add_texts", "sleep"})

\* C20: a batched rebuild over m batches, the initial construction being
\* the first, in which no batch fails, sleeps retry_delay between every two
\* consecutive batches: m - 1 sleeps, none after the last batch.
C20_PauseBetweenBatches ==
    (BatchedDone /\ failed = {}) =>
        LET m == BatchCount(load_external)
        IN  /\ Len(BatchedLog) = 2 * m - 1
            /\ \A k \in 1..Len(BatchedLog) :
                   IF k % 2 = 1
                   THEN BatchedLog[k].op \in {"from_documents", "add_texts"}
                   ELSE BatchedLog[k] = sleep(retry_delay)
            /\ Len(SelectSeq(BatchedLog, LAMBDA event : event.op = "sleep")) = m - 1

\* the index calls of the batched rebuild of this call, the sleeps left out
Attempts == SelectSeq(BatchedLog, LAMBDA event : event.op # "sleep")

\* the number of passages of batch number j of documents
BatchLen(documents, j) == Min(batch_size, Len(documents) - (j - 1) * batch_size)

\* what C21 says of a batched rebuild that has returned, its initial
\* construction having gone well
FailedBatchSkipped ==
    (BatchedDone /\ 1 \notin failed) =>
        /\ Len(Attempts) = BatchCount(load_external)
        /\ \A j \in 1..Len(Attempts) :
               /\ Attempts[j].n = BatchLen(load_external, j)
               /\ Attempts[j].ok = (j \notin failed)
        /\ \A k \in 1..Len(BatchedLog) :
               (BatchedLog[k].op = "add_texts" /\ ~BatchedLog[k].ok) =>
                   /\ k < Len(BatchedLog)
                   /\ BatchedLog[k + 1] = sleep(retry_delay * 2)
                   /\ k + 1 < Len(BatchedLog) => BatchedLog[k + 2].op = "add_texts"
        /\ external_vectorstore.exists
        /\ external_vectorstore.docs = AllButBatches(load_external, failed)

\* C21: in a batched rebuild, a failed insert of a batch after the initial
\* one is followed by a sleep of 2 x retry_delay and then by the next batch;
\* every batch is tried once, in order, the passages of a failed batch are
\* not in the index returned, the index calls are as many as the batches,
\* and the rebuild, once in its loop, leaves it.
C21_FailedBatchSkipped ==
    /\ []FailedBatchSkipped
    /\ (bpc = "batched_loop") ~> (bpc = "save_to_cache")

\* three batches, the second and the third failed, each followed by a sleep
\* of 2 x retry_delay
C21_Witness ==
    /\ BatchedDone
    /\ failed = {2, 3}
    /\ Len(load_external) = 3 * batch_size
    /\ Len(Attempts) = 3
    /\ external_vectorstore.docs = SubSeq(load_external, 1, batch_size)
    /\ Len(SelectSeq(BatchedLog, LAMBDA event : event = sleep(retry_delay * 2))) = 2

\* C22: a build rebuilds an index kind from its source only when its own
\* load from the cache failed or its cache was absent; an index loaded from
\* its cache, the Supplemental index when the Authoritative cache is
\* missing or corrupt included, is kept as loaded, neither rebuilt nor
\* replaced.
C22_RestoredKept ==
    /\ rebuilt \cap restored = {}
    /\ (bpc = "save_to_cache" /\ "facts" \in restored) =>
           facts_vectorstore = facts_cache
    /\ (bpc = "save_to_cache" /\ "external" \in restored) =>
           external_vectorstore = external_cache

\* the log holds a call of save_local on the index of kind
SaveTried(events, kind) ==
    \E k \in 1..Len(events) : events[k].op = kind \o ".save_local"

\* C23: at the end of a build a save to its own cache is tried for every
\* index that exists, each on its own: a failed save of the Authoritative
\* index does not keep the Supplemental index from being saved, and no
\* failed save ends the build early or changes an index in memory.
C23_PersistEach ==
    [][(bpc = "save_to_cache" /\ bpc' # bpc) =>
           /\ bpc' = "set_ready"
           /\ UNCHANGED <<indexes, vectorstores_ready>>
           /\ facts_vectorstore.exists => SaveTried(log', "facts")
           /\ external_vectorstore.exists => SaveTried(log', "external")]_vars

\* C24: every rebuild from passages, of the Authoritative index as of the
\* Supplemental index, goes by batches: no call that constructs an index
\* or inserts into one is given more than batch_size passages.
C24_BatchedRebuilds ==
    \A k \in 1..Len(log) :
        log[k].op \in {"from_documents", "add_texts"} => log[k].n <= batch_size

\* the record is split: it passes the record filter and is longer than
\* chunk_size
SplitRecord(item) ==
    /\ ~too_short(TextOf(item))
    /\ Len(TextOf(item)) > chunk_size

\* the passages returned for the record at position n, in order
PassagesOf(documents, n) ==
    SelectSeq(documents, LAMBDA doc : doc.metadata.video_id = Number(n))

\* C25: of the sub-chunks of a supplemental record that is split, exactly
\* those whose trimmed length is below 20 are dropped; a sub-chunk of
\* trimmed length 20 is kept, as a record of that length is.
C25_SubChunkThreshold ==
    (Called("load_external") /\ Loadable(call.file)) =>
        \A n \in 1..Len(Records(call.file)) :
            SplitRecord(Records(call.file)[n]) =>
                \A j \in 1..Len(call.file.texts[n]) :
                    LET text == call.file.texts[n][j]
                        kept == \E doc \in Range(PassagesOf(call.results[1].documents, n)) :
                                    doc.page_content = text
                    IN  kept = ~(Len(Strip(text)) < 20)

\* C26 as stated: the m passages of a record carry the chunk_ids c1..cm in
\* order, without a gap where a sub-chunk was dropped, and no two passages
\* of the file share (doc_id, chunk_id).
C26_DenseChunkIds ==
    (Called("load_external") /\ Loadable(call.file)) =>
        LET documents == call.results[1].documents
        IN  /\ \A n \in 1..Len(Records(call.file)) :
                   \A m \in 1..Len(PassagesOf(documents, n)) :
                       /\ Head(PassagesOf(documents, n)[m].metadata.chunk_id) = "c"
                       /\ IdNumber(PassagesOf(documents, n)[m].metadata.chunk_id) = m
            /\ \A d, e \in 1..Len(documents) :
                   d # e =>
                       <<documents[d].metadata.doc_id, documents[d].metadata.chunk_id>>
                           # <<documents[e].metadata.doc_id, documents[e].metadata.chunk_id>>

\* the position of the passage among the sub-chunks of its record, the
\* dropped ones counted: the texts of a record differ from one another
PositionIn(texts, doc) ==
    CHOOSE j \in 1..Len(texts) : texts[j] = doc.page_content

\* C26 amended: a passage of a split record carries the chunk_id c{j}, j
\* being the position of its sub-chunk among all sub-chunks of the record,
\* the dropped ones counted, so the chunk_ids of a record rise and may
\* leave gaps; the one passage of a record that is not split carries c1;
\* no two passages of the file share (doc_id, chunk_id).
C26_PositionalChunkIds ==
    (Called("load_external") /\ Loadable(call.file)) =>
        LET documents == call.results[1].documents
        IN  /\ \A n \in 1..Len(Records(call.file)) :
                   LET passages == PassagesOf(documents, n)
                       item == Records(call.file)[n]
                       texts == call.file.texts[n]
                   IN  /\ \A m \in 1..Len(passages) :
                              /\ Head(passages[m].metadata.chunk_id) = "c"
                              /\ IdNumber(passages[m].metadata.chunk_id) =
                                     IF SplitRecord(item)
                                     THEN PositionIn(texts, passages[m])
                                     ELSE 1
                       /\ \A l, m \in 1..Len(passages) :
                              l < m => IdNumber(passages[l].metadata.chunk_id)
                                          < IdNumber(passages[m].metadata.chunk_id)
            /\ \A d, e \in 1..Len(documents) :
                   d # e =>
                       <<documents[d].metadata.doc_id, documents[d].metadata.chunk_id>>
                           # <<documents[e].metadata.doc_id, documents[e].metadata.chunk_id>>

\* a record split in three whose first and last sub-chunks are dropped: its
\* one passage carries c2; beside it a record split in two
C26_Witness ==
    /\ Called("load_external")
    /\ Loadable(call.file)
    /\ Len(Records(call.file)) = 2
    /\ Len(call.file.texts[1]) = 3
    /\ Len(PassagesOf(call.results[1].documents, 1)) = 1
    /\ call.results[1].documents[1].metadata.chunk_id = <<"c", "2">>
    /\ Len(PassagesOf(call.results[1].documents, 2)) = 2

\* C27: between the calls of initialize_vectorstores, whatever they did and
\* however they ended, and at every step of a question, a true
\* vectorstores_ready comes with an Authoritative index that is present.
C27_ReadyHasFacts ==
    (NoBuild /\ vectorstores_ready) => facts_vectorstore.exists

\* llm.invoke was called for the question in flight
LlmInvoked == "llm.invoke" \in Range(trace)

\* every passage of the sequence comes from the Authoritative index
OnlyFacts(sources) ==
    \A i \in 1..Len(sources) : metadata(sources[i]).source = "facts"

\* C28: for a question classified sensitive, llm.invoke is called only with
\* authoritative passages as sources, and a response of status answered
\* comes with a non-empty authoritative retrieval and citations of source
\* "facts" only: no supplemental passage informs or is cited.
C28_SensitiveFactsOnly ==
    (state.is_sensitive /\ is_sensitive_question(state.question)) =>
        /\ ~ExternalSearched
        /\ LlmInvoked =>
               /\ state.retrieved_external = <<>>
               /\ all_sources(state) = state.retrieved_facts
               /\ OnlyFacts(all_sources(state))
        /\ (apc = "returned" /\ response.status = "answered") =>
               /\ LlmInvoked
               /\ state.retrieved_facts # <<>>
               /\ response.citations # <<>>
               /\ \A i \in 1..Len(response.citations) :
                      response.citations[i].source = "facts"

\* a sensitive question whose authoritative passages were not sufficient,
\* with a Supplemental index at hand, was answered from those passages
C28_Witness ==
    /\ apc = "returned"
    /\ state.is_sensitive
    /\ state.needs_external
    /\ external_vectorstore.exists
    /\ LlmInvoked
    /\ response.status = "answered"
    /\ Len(response.citations) = Len(state.retrieved_facts)
    /\ state.retrieved_facts # <<>>

====
